---- MODULE Spec2Model ----
(***************************************************************************)
(* Model of the AppleScript result layer of apple-mcp (src/utils/notes.ts  *)
(* and src/utils/mail.ts): the value parser, the coercion helpers, the     *)
(* four domain mappers and the operations that call them, and of the      *)
(* search module at the end of mail.ts.                                    *)
(*                                                                         *)
(* Text is a sequence of one-character strings, so that the parser and the *)
(* string conversions work on characters as the code does.                 *)
(***************************************************************************)
EXTENDS Integers, Sequences, FiniteSets, TLC

VARIABLES op, arg, steps, res, pc, tmpFile, disk, cachedDocuments, loads, parser

\* op, arg, steps, res: the pending call, its inputs, the steps it has taken
\* and its outcome.  pc: where a handler that runs step by step stands.
\* tmpFile, disk: the temporary file of the pending call and the temporary
\* files that exist.  cachedDocuments, loads: the cache of the search
\* module and the number of times the README was loaded.  parser: the
\* fields and locals of a parser that runs step by step.
vars == <<op, arg, steps, res, pc, tmpFile, disk, cachedDocuments, loads, parser>>

\* what a call that runs in one step leaves alone
stepVars == <<pc, tmpFile, disk, cachedDocuments, loads, parser>>

-----------------------------------------------------------------------------
(* Bounds of the model.                                                    *)

\* Longest batch (list of records) handed to a mapper or returned by the bridge.
MaxBatch == 3

\* The largest epoch-seconds value whose Date is valid. ECMAScript's limit is
\* 8.64e12 seconds (8.64e15 ms); the model scales it down to stay inside
\* TLC's integers. It must stay below 60 (ToISOString's range).
MaxSec == 2

\* the longest text the parser is given, before it is put in braces
MaxText == 5

-----------------------------------------------------------------------------
(* Text literals.                                                          *)

T_empty == <<>>
T_status == <<"s","t","a","t","u","s">>
T_reason == <<"r","e","a","s","o","n">>
T_error == <<"e","r","r","o","r">>
T_success == <<"s","u","c","c","e","s","s">>
T_true == <<"t","r","u","e">>
T_false == <<"f","a","l","s","e">>
T_yes == <<"y","e","s">>
T_no == <<"n","o">>
T_missing_value == <<"m","i","s","s","i","n","g"," ","v","a","l","u","e">>
T_NaN == <<"N","a","N">>
T_Infinity == <<"I","n","f","i","n","i","t","y">>
T_object_Object == <<"[","o","b","j","e","c","t"," ","O","b","j","e","c","t","]">>
T_unknown == <<"u","n","k","n","o","w","n">>
T_id == <<"i","d">>
T_name == <<"n","a","m","e">>
T_title == <<"t","i","t","l","e">>
T_content == <<"c","o","n","t","e","n","t">>
T_folderName == <<"f","o","l","d","e","r","N","a","m","e">>
T_creationDate == <<"c","r","e","a","t","i","o","n","D","a","t","e">>
T_modificationDate == <<"m","o","d","i","f","i","c","a","t","i","o","n","D","a","t","e">>
T_location == <<"l","o","c","a","t","i","o","n">>
T_notes == <<"n","o","t","e","s">>
T_startDate == <<"s","t","a","r","t","D","a","t","e">>
T_endDate == <<"e","n","d","D","a","t","e">>
T_calendarName == <<"c","a","l","e","n","d","a","r","N","a","m","e">>
T_isAllDay == <<"i","s","A","l","l","D","a","y">>
T_url == <<"u","r","l">>
T_subject == <<"s","u","b","j","e","c","t">>
T_sender == <<"s","e","n","d","e","r">>
T_dateSent == <<"d","a","t","e","S","e","n","t">>
T_date == <<"d","a","t","e">>
T_sentDate == <<"s","e","n","t","D","a","t","e">>
T_receivedDate == <<"r","e","c","e","i","v","e","d","D","a","t","e">>
T_mailbox == <<"m","a","i","l","b","o","x">>
T_isRead == <<"i","s","R","e","a","d">>
T_read == <<"r","e","a","d">>
T_body == <<"b","o","d","y">>
T_completed == <<"c","o","m","p","l","e","t","e","d">>
T_dueDate == <<"d","u","e","D","a","t","e">>
T_listName == <<"l","i","s","t","N","a","m","e">>
T_completionDate == <<"c","o","m","p","l","e","t","i","o","n","D","a","t","e">>
T_remindMeDate == <<"r","e","m","i","n","d","M","e","D","a","t","e">>
T_priority == <<"p","r","i","o","r","i","t","y">>
T_UntitledNote == <<"U","n","t","i","t","l","e","d"," ","N","o","t","e">>
T_UntitledEvent == <<"U","n","t","i","t","l","e","d"," ","E","v","e","n","t">>
T_UntitledReminder == <<"U","n","t","i","t","l","e","d"," ","R","e","m","i","n","d","e","r">>
T_UnknownCalendar == <<"U","n","k","n","o","w","n"," ","C","a","l","e","n","d","a","r">>
T_Reminders == <<"R","e","m","i","n","d","e","r","s">>
T_NoSubject == <<"N","o"," ","s","u","b","j","e","c","t">>
T_UnknownSender == <<"U","n","k","n","o","w","n"," ","s","e","n","d","e","r">>
T_UnknownMailbox == <<"U","n","k","n","o","w","n"," ","m","a","i","l","b","o","x">>
T_ContentNotAvailable == <<"[","C","o","n","t","e","n","t"," ","n","o","t"," ","a","v","a","i","l","a","b","l","e","]">>
T_folder_not_found == <<"f","o","l","d","e","r","_","n","o","t","_","f","o","u","n","d">>
T_calendar_not_found == <<"c","a","l","e","n","d","a","r","_","n","o","t","_","f","o","u","n","d">>
T_noteRecord == <<"n","o","t","e","R","e","c","o","r","d">>
T_eventRecord == <<"e","v","e","n","t","R","e","c","o","r","d">>
T_list_not_found == <<"l","i","s","t","_","n","o","t","_","f","o","u","n","d">>

Digits == <<"0","1","2","3","4","5","6","7","8","9">>
DigitSet == {Digits[i] : i \in 1..10}
WhitespaceSet == {" ", "\t", "\n", "\r"}

-----------------------------------------------------------------------------
(* The value model: AppleScriptValue, plus JavaScript's undefined and the  *)
(* non-finite numbers.  Every value has the same fields so that any two    *)
(* values can be compared; t is the tag.                                   *)
(*   t = "undef" | "null" | "bool" | "num" | "nan" | "inf" | "str"         *)
(*     | "list" | "rec"                                                    *)
(*   "nan" and "inf" are numbers (typeof "number"); n of "inf" is its sign.*)
(*   A finite number is the decimal n / 10^e.                              *)
(*   r of a record is its sequence of entries [k, v], in property order.   *)

Mk(t, b, n, e, s, l, r) ==
    [t |-> t, b |-> b, n |-> n, e |-> e, s |-> s, l |-> l, r |-> r]
Undef == Mk("undef", FALSE, 0, 0, <<>>, <<>>, <<>>)
Null == Mk("null", FALSE, 0, 0, <<>>, <<>>, <<>>)
Bool(b) == Mk("bool", b, 0, 0, <<>>, <<>>, <<>>)
\* the finite number n / 10^e, kept normalised by Dec
Num(n) == Mk("num", FALSE, n, 0, <<>>, <<>>, <<>>)
NaN == Mk("nan", FALSE, 0, 0, <<>>, <<>>, <<>>)
Inf(sign) == Mk("inf", FALSE, sign, 0, <<>>, <<>>, <<>>)
Str(s) == Mk("str", FALSE, 0, 0, s, <<>>, <<>>)
List(l) == Mk("list", FALSE, 0, 0, <<>>, l, <<>>)
Rec(r) == Mk("rec", FALSE, 0, 0, <<>>, <<>>, r)
KV(k, v) == [k |-> k, v |-> v]

IsNumber(v) == v.t \in {"num", "nan", "inf"}
IsString(v) == v.t = "str"
IsBoolean(v) == v.t = "bool"
IsArray(v) == v.t = "list"
\* typeof v === "object": null, arrays and plain objects
IsObjectType(v) == v.t \in {"null", "list", "rec"}
IsNullish(v) == v.t \in {"undef", "null"}

\* JavaScript truthiness (ToBoolean)
Truthy(v) ==
    CASE v.t \in {"undef", "null", "nan"} -> FALSE
      [] v.t = "bool" -> v.b
      [] v.t = "num" -> v.n # 0
      [] v.t = "str" -> v.s # <<>>
      [] OTHER -> TRUE

\* record.key: the value of the last entry under the key, undefined if none.
\* On a list (an array) the named properties of the model's keys do not exist.
RECURSIVE GetFrom(_, _, _)
GetFrom(r, key, i) ==
    IF i = 0 THEN Undef
    ELSE IF r[i].k = key THEN r[i].v
    ELSE GetFrom(r, key, i - 1)

Get(v, key) == IF v.t = "rec" THEN GetFrom(v.r, key, Len(v.r)) ELSE Undef

\* a ?? b
Coalesce(a, b) == IF IsNullish(a) THEN b ELSE a

-----------------------------------------------------------------------------
(* Numbers and their text forms.                                           *)

RECURSIVE Pow10(_)
Pow10(e) == IF e = 0 THEN 1 ELSE 10 * Pow10(e - 1)

Abs(n) == IF n < 0 THEN 0 - n ELSE n

\* the decimal m / 10^e with trailing zeros of the fraction removed
RECURSIVE Dec(_, _)
Dec(m, e) ==
    IF e > 0 /\ m % 10 = 0 THEN Dec(m \div 10, e - 1)
    ELSE Mk("num", FALSE, m, e, <<>>, <<>>, <<>>)

DigitValue(c) == CHOOSE d \in 0..9 : Digits[d + 1] = c

\* the decimal digits of a natural number
RECURSIVE NatToText(_)
NatToText(n) ==
    IF n < 10 THEN <<Digits[n + 1]>>
    ELSE NatToText(n \div 10) \o <<Digits[(n % 10) + 1]>>

\* n written with exactly w digits (leading zeros)
RECURSIVE PadNat(_, _)
PadNat(n, w) ==
    IF w = 0 THEN <<>> ELSE PadNat(n \div 10, w - 1) \o <<Digits[(n % 10) + 1]>>

\* Number.prototype.toString of a finite number (plain decimal notation:
\* the model's numbers stay inside the range JavaScript prints that way)
FiniteToText(m, e) ==
    (IF m < 0 THEN <<"-">> ELSE <<>>)
    \o NatToText(Abs(m) \div Pow10(e))
    \o (IF e = 0 THEN <<>> ELSE <<".">> \o PadNat(Abs(m) % Pow10(e), e))

RECURSIVE TrimLeft(_)
TrimLeft(s) ==
    IF s # <<>> /\ Head(s) \in WhitespaceSet THEN TrimLeft(Tail(s)) ELSE s

RECURSIVE TrimRight(_)
TrimRight(s) ==
    IF s # <<>> /\ s[Len(s)] \in WhitespaceSet
    THEN TrimRight(SubSeq(s, 1, Len(s) - 1)) ELSE s

\* String.prototype.trim
Trim(s) == TrimRight(TrimLeft(s))

AllDigits(s) == \A i \in 1..Len(s) : s[i] \in DigitSet

RECURSIVE DigitsToNat(_)
DigitsToNat(s) ==
    IF s = <<>> THEN 0
    ELSE 10 * DigitsToNat(SubSeq(s, 1, Len(s) - 1)) + DigitValue(s[Len(s)])

\* position of the first "." in s, 0 if none
RECURSIVE DotAt(_, _)
DotAt(s, i) ==
    IF i > Len(s) THEN 0 ELSE IF s[i] = "." THEN i ELSE DotAt(s, i + 1)

\* an unsigned decimal literal: digits, digits "." [digits], or "." digits
UnsignedToNumber(s) ==
    LET d == DotAt(s, 1)
        ip == IF d = 0 THEN s ELSE SubSeq(s, 1, d - 1)
        fp == IF d = 0 THEN <<>> ELSE SubSeq(s, d + 1, Len(s))
    IN  IF Len(ip) + Len(fp) = 0 \/ ~AllDigits(ip) \/ ~AllDigits(fp) THEN NaN
        ELSE Dec(DigitsToNat(ip) * Pow10(Len(fp)) + DigitsToNat(fp), Len(fp))

Negate(v) ==
    CASE v.t = "num" -> Dec(0 - v.n, v.e)
      [] v.t = "inf" -> Inf(0 - v.n)
      [] OTHER -> v

\* Number(text), JavaScript's StringToNumber, on the texts of the model:
\* white space is trimmed, the empty text is 0, then an optional sign and a
\* decimal literal or Infinity; anything else is NaN.  (Exponent and radix
\* prefixes are outside the model's texts.)
StrToNum(text) ==
    LET s == Trim(text)
        signed == s # <<>> /\ Head(s) \in {"-", "+"}
        u == IF signed THEN Tail(s) ELSE s
        mag == IF u = T_Infinity THEN Inf(1) ELSE UnsignedToNumber(u)
    IN  IF s = <<>> THEN Num(0)
        ELSE IF signed /\ Head(s) = "-" THEN Negate(mag)
        ELSE mag

-----------------------------------------------------------------------------
(* String conversion and the coercion helpers.                             *)

UpperLetters == <<"A","B","C","D","E","F","G","H","I","J","K","L","M",
                  "N","O","P","Q","R","S","T","U","V","W","X","Y","Z">>
LowerLetters == <<"a","b","c","d","e","f","g","h","i","j","k","l","m",
                  "n","o","p","q","r","s","t","u","v","w","x","y","z">>

LowerChar(c) ==
    IF \E i \in 1..26 : UpperLetters[i] = c
    THEN LowerLetters[CHOOSE i \in 1..26 : UpperLetters[i] = c]
    ELSE c

\* String.prototype.toLowerCase
ToLowerCase(s) == [i \in 1..Len(s) |-> LowerChar(s[i])]

\* String(value): the scalar text forms; an array is its elements' strings
\* joined by "," (null and undefined elements as the empty text); a plain
\* object is "[object Object]".
RECURSIVE JsString(_)
RECURSIVE JoinFrom(_, _)
JoinFrom(l, i) ==
    IF i > Len(l) THEN <<>>
    ELSE (IF i > 1 THEN <<",">> ELSE <<>>)
         \o (IF IsNullish(l[i]) THEN <<>> ELSE JsString(l[i]))
         \o JoinFrom(l, i + 1)

JsString(v) ==
    CASE v.t = "str" -> v.s
      [] v.t = "undef" -> <<"u","n","d","e","f","i","n","e","d">>
      [] v.t = "null" -> <<"n","u","l","l">>
      [] v.t = "bool" -> IF v.b THEN T_true ELSE T_false
      [] v.t = "num" -> FiniteToText(v.n, v.e)
      [] v.t = "nan" -> T_NaN
      [] v.t = "inf" -> (IF v.n < 0 THEN <<"-">> ELSE <<>>) \o T_Infinity
      [] v.t = "list" -> JoinFrom(v.l, 1)
      [] OTHER -> T_object_Object

\* coerceString(value, fallback): the four copies in the source are identical
coerceString(value, fallback) ==
    IF IsString(value) THEN value.s
    ELSE IF IsNullish(value) THEN fallback
    ELSE JsString(value)

\* coerceBoolean of the notes and calendar modules: "1" and "0" count
coerceBooleanNotes(value, fallback) ==
    IF IsBoolean(value) THEN value.b
    ELSE IF IsNumber(value) THEN ~(value.t = "num" /\ value.n = 0)
    ELSE IF IsString(value) /\ ToLowerCase(value.s) \in {T_true, T_yes, <<"1">>}
    THEN TRUE
    ELSE IF IsString(value) /\ ToLowerCase(value.s) \in {T_false, T_no, <<"0">>}
    THEN FALSE
    ELSE fallback

\* coerceBoolean of the mail and reminders modules
coerceBooleanMail(value, fallback) ==
    IF IsBoolean(value) THEN value.b
    ELSE IF IsString(value) /\ ToLowerCase(value.s) \in {T_true, T_yes} THEN TRUE
    ELSE IF IsString(value) /\ ToLowerCase(value.s) \in {T_false, T_no} THEN FALSE
    ELSE IF IsNumber(value) THEN ~(value.t = "num" /\ value.n = 0)
    ELSE fallback

\* toNumber(value): a finite number, or a non-blank string whose Number() is
\* not NaN (Infinity passes); otherwise null
toNumber(value) ==
    IF value.t = "num" THEN value
    ELSE IF IsString(value) /\ Trim(value.s) # <<>> /\ StrToNum(value.s).t # "nan"
    THEN StrToNum(value.s)
    ELSE Null

\* coerceNumber(value) of the reminders module: as toNumber, undefined for none
coerceNumber(value) ==
    IF toNumber(value).t = "null" THEN Undef ELSE toNumber(value)

-----------------------------------------------------------------------------
(* Dates.  A Date is Mk("date", valid, ms, ...): b says whether the time   *)
(* value is a number (not NaN), n is the time in milliseconds.             *)

DateVal(valid, ms) == Mk("date", valid, ms, 0, <<>>, <<>>, <<>>)
InvalidDate == DateVal(FALSE, 0)

\* the largest valid time value, in ms (TimeClip's limit, scaled: see MaxSec)
MaxTimeMs == MaxSec * 1000

\* x * 1000 truncated toward zero, for a finite number x
TimesThousand(x) ==
    LET a == (Abs(x.n) * 1000) \div Pow10(x.e)
    IN  IF x.n < 0 THEN 0 - a ELSE a

\* new Date(x * 1000) for a number x
NewDateFromSeconds(x) ==
    IF x.t # "num" THEN InvalidDate
    ELSE IF Abs(TimesThousand(x)) > MaxTimeMs THEN InvalidDate
    ELSE DateVal(TRUE, TimesThousand(x))

IsoPrefix1970 == <<"1","9","7","0","-","0","1","-","0","1","T","0","0",":","0","0",":">>
IsoPrefix1969 == <<"1","9","6","9","-","1","2","-","3","1","T","2","3",":","5","9",":">>

\* Date.prototype.toISOString for a valid time within a minute of the epoch:
\* YYYY-MM-DDTHH:mm:ss.sssZ
ToISOString(ms) ==
    LET t == IF ms >= 0 THEN ms ELSE 60000 + ms
    IN  (IF ms >= 0 THEN IsoPrefix1970 ELSE IsoPrefix1969)
        \o PadNat(t \div 1000, 2) \o <<".">> \o PadNat(t % 1000, 3) \o <<"Z">>

\* Date.parse(text) on the texts of the model: the ISO form above gives its
\* time; a text that holds no digit is not a date.  (Other texts with digits
\* are parsed in implementation-defined ways and are kept out of the inputs.)
\* The result is a Date: invalid for NaN.
DateParse(text) ==
    IF Len(text) = 24
       /\ SubSeq(text, 1, 17) \in {IsoPrefix1970, IsoPrefix1969}
       /\ AllDigits(SubSeq(text, 18, 19)) /\ text[20] = "."
       /\ AllDigits(SubSeq(text, 21, 23)) /\ text[24] = "Z"
       /\ DigitsToNat(SubSeq(text, 18, 19)) < 60
    THEN LET t == DigitsToNat(SubSeq(text, 18, 19)) * 1000
                  + DigitsToNat(SubSeq(text, 21, 23))
         IN  DateVal(TRUE, IF SubSeq(text, 1, 17) = IsoPrefix1970 THEN t ELSE t - 60000)
    ELSE InvalidDate

\* a thrown error, as a value
Thrown(kind) == Mk("throw", FALSE, 0, 0, <<kind>>, <<>>, <<>>)
IsThrown(v) == v.t = "throw"

\* toDateFromUnix(value) of the notes module: undefined, or new Date(s * 1000)
\* (which may be an Invalid Date)
toDateFromUnix(value) ==
    IF toNumber(value).t = "null" THEN Undef
    ELSE NewDateFromSeconds(toNumber(value))

\* toIsoFromUnix(value) of the calendar module: null, the ISO text, or the
\* RangeError toISOString raises on an Invalid Date
toIsoFromUnix(value) ==
    IF toNumber(value).t = "null" THEN Null
    ELSE IF ~NewDateFromSeconds(toNumber(value)).b THEN Thrown("RangeError")
    ELSE Str(ToISOString(NewDateFromSeconds(toNumber(value)).n))

\* toIsoDate(value, now) of the first mail module: the current time for an
\* empty text, the text itself when it does not parse, else the ISO text
toIsoDate(value, now) ==
    LET asString == coerceString(value, <<>>)
    IN  IF asString = <<>> THEN ToISOString(now)
        ELSE IF ~DateParse(asString).b THEN asString
        ELSE ToISOString(DateParse(asString).n)

\* toIsoString(value) of the reminders module: null unless the text parses
toIsoString(value) ==
    LET asString == coerceString(value, <<>>)
    IN  IF ~Truthy(value) THEN Null
        ELSE IF value.t = "date" /\ value.b THEN Str(ToISOString(value.n))
        ELSE IF asString = <<>> THEN Null
        ELSE IF ~DateParse(asString).b THEN Null
        ELSE Str(ToISOString(DateParse(asString).n))

-----------------------------------------------------------------------------
(* The domain mappers.                                                     *)

\* item !== null && typeof item === "object": records and nested lists
IsNonNullObject(v) == v.t \in {"list", "rec"}

\* value || alternative, for a text
OrElse(text, alternative) == IF text # <<>> THEN Str(text) ELSE alternative

\* ---- notes ----

noteOf(record) ==
    [name |-> coerceString(Get(record, T_name), T_UntitledNote),
     content |-> coerceString(Get(record, T_content), <<>>),
     folderName |-> OrElse(coerceString(Get(record, T_folderName), <<>>), Undef),
     id |-> OrElse(coerceString(Get(record, T_id), <<>>), Undef),
     creationDate |-> toDateFromUnix(Get(record, T_creationDate)),
     modificationDate |-> toDateFromUnix(Get(record, T_modificationDate))]

\* a.modificationDate?.getTime() ?? a.creationDate?.getTime() ?? 0:
\* [nan, t], nan for the time of an Invalid Date
noteTime(note) ==
    LET d == IF note.modificationDate.t = "date" THEN note.modificationDate
             ELSE note.creationDate
    IN  IF d.t # "date" THEN [nan |-> FALSE, t |-> 0]
        ELSE IF ~d.b THEN [nan |-> TRUE, t |-> 0]
        ELSE [nan |-> FALSE, t |-> d.n]

\* the comparator (a, b) => bTime - aTime; a NaN result counts as 0
noteCompare(a, b) ==
    IF noteTime(a).nan \/ noteTime(b).nan THEN 0
    ELSE noteTime(b).t - noteTime(a).t

\* stable insertion of x behind every element that does not sort after it
RECURSIVE insertNote(_, _)
insertNote(sorted, x) ==
    IF sorted = <<>> THEN <<x>>
    ELSE IF noteCompare(Head(sorted), x) <= 0
    THEN <<Head(sorted)>> \o insertNote(Tail(sorted), x)
    ELSE <<x>> \o sorted

RECURSIVE stableSortNotes(_)
stableSortNotes(seq) ==
    IF seq = <<>> THEN <<>>
    ELSE insertNote(stableSortNotes(SubSeq(seq, 1, Len(seq) - 1)), seq[Len(seq)])

\* whether the comparator is a consistent comparator on seq: it is unless a
\* NaN time (equal to everything) sits among times that differ
noteCompareConsistent(seq) ==
    (\A i \in 1..Len(seq) : ~noteTime(seq[i]).nan)
    \/ (\A i, j \in 1..Len(seq) :
          (~noteTime(seq[i]).nan /\ ~noteTime(seq[j]).nan)
              => noteTime(seq[i]).t = noteTime(seq[j]).t)

Reorderings(seq) ==
    {[i \in 1..Len(seq) |-> seq[f[i]]] :
        f \in {g \in [1..Len(seq) -> 1..Len(seq)] :
                  \A i, j \in 1..Len(seq) : g[i] = g[j] => i = j}}

\* Array.prototype.sort with the note comparator: the stable order when the
\* comparator is consistent, an implementation-defined order otherwise
sortedNotes(seq) ==
    IF noteCompareConsistent(seq) THEN {stableSortNotes(seq)}
    ELSE Reorderings(seq)

noteRecords(raw) ==
    IF IsArray(raw) THEN SelectSeq(raw.l, IsNonNullObject)
    ELSE IF raw.t = "rec" THEN <<raw>>
    ELSE <<>>

\* mapNoteRecords(raw): the set of sequences the call can return
mapNoteRecords(raw) ==
    sortedNotes([i \in 1..Len(noteRecords(raw)) |-> noteOf(noteRecords(raw)[i])])

\* ---- calendar events ----

\* Number.MAX_SAFE_INTEGER on the scaled time axis: it exceeds the largest
\* valid time by about one part in 24, as 2^53 - 1 exceeds 8.64e15
MAX_SAFE_INTEGER == MaxTimeMs + (MaxTimeMs \div 24)

eventId(id, title, startDate, calendarName) ==
    IF id # <<>> THEN id
    ELSE title \o <<"-">>
         \o (IF startDate.t = "null" THEN T_unknown ELSE startDate.s)
         \o <<"-">> \o calendarName

\* the event built from one record; the RangeError of toIsoFromUnix when the
\* start or end date is out of range
eventOf(record) ==
    LET id == coerceString(Get(record, T_id), <<>>)
        title == coerceString(Get(record, T_title), T_UntitledEvent)
        location == coerceString(Get(record, T_location), <<>>)
        notes == coerceString(Get(record, T_notes), <<>>)
        calendarName == coerceString(Get(record, T_calendarName), T_UnknownCalendar)
        url == coerceString(Get(record, T_url), <<>>)
        startDate == toIsoFromUnix(Get(record, T_startDate))
        endDate == toIsoFromUnix(Get(record, T_endDate))
    IN  IF IsThrown(startDate) THEN startDate
        ELSE IF IsThrown(endDate) THEN endDate
        ELSE [t |-> "event",
              id |-> eventId(id, title, startDate, calendarName),
              title |-> title,
              location |-> OrElse(location, Null),
              notes |-> OrElse(notes, Null),
              startDate |-> startDate,
              endDate |-> endDate,
              calendarName |-> calendarName,
              isAllDay |-> coerceBooleanNotes(Get(record, T_isAllDay), FALSE),
              url |-> OrElse(url, Null)]

\* a sort key that reads the start date only
getEventSortKeyStartOnly(event) ==
    IF event.startDate.t = "str" /\ DateParse(event.startDate.s).b
    THEN DateParse(event.startDate.s).n
    ELSE MAX_SAFE_INTEGER

getEventSortKey(event) ==
    IF event.startDate.t = "str" /\ DateParse(event.startDate.s).b
    THEN DateParse(event.startDate.s).n
    ELSE IF event.endDate.t = "str" /\ DateParse(event.endDate.s).b
    THEN DateParse(event.endDate.s).n
    ELSE MAX_SAFE_INTEGER

eventCompare(a, b) == getEventSortKey(a) - getEventSortKey(b)

\* an insertion that puts x in front of the elements it ties with
RECURSIVE insertEventBeforeTies(_, _)
insertEventBeforeTies(sorted, x) ==
    IF sorted = <<>> THEN <<x>>
    ELSE IF getEventSortKey(Head(sorted)) - getEventSortKey(x) < 0
    THEN <<Head(sorted)>> \o insertEventBeforeTies(Tail(sorted), x)
    ELSE <<x>> \o sorted

RECURSIVE insertEvent(_, _)
insertEvent(sorted, x) ==
    IF sorted = <<>> THEN <<x>>
    ELSE IF eventCompare(Head(sorted), x) <= 0
    THEN <<Head(sorted)>> \o insertEvent(Tail(sorted), x)
    ELSE <<x>> \o sorted

\* ordered.sort(...): the comparator is a difference of finite keys, so the
\* result is the stable ascending order
RECURSIVE sortEvents(_)
sortEvents(seq) ==
    IF seq = <<>> THEN <<>>
    ELSE insertEvent(sortEvents(SubSeq(seq, 1, Len(seq) - 1)), seq[Len(seq)])

\* deduped.set(key, event) on a Map kept as its sequence of entries:
\* replace in place under a known key, else append
RECURSIVE mapSet(_, _, _)
mapSet(deduped, key, event) ==
    IF deduped = <<>> THEN <<[key |-> key, value |-> event]>>
    ELSE IF Head(deduped).key = key
    THEN <<[key |-> key, value |-> event]>> \o Tail(deduped)
    ELSE <<Head(deduped)>> \o mapSet(Tail(deduped), key, event)

\* deduped.values()
mapValues(deduped) == [i \in 1..Len(deduped) |-> deduped[i].value]

\* const id = coerceString(record.id)
recordId(record) == coerceString(Get(record, T_id), <<>>)

eventRecords(raw) ==
    IF IsArray(raw) THEN SelectSeq(raw.l, IsNonNullObject) ELSE <<>>

\* the loop over the records from position i, events[i] being the event built
\* from records[i]: [deduped, fallback]
RECURSIVE eventLoop(_, _, _, _, _)
eventLoop(records, events, i, deduped, fallback) ==
    IF i > Len(records)
    THEN [deduped |-> deduped, fallback |-> fallback]
    ELSE IF recordId(records[i]) # <<>>
    THEN eventLoop(records, events, i + 1,
                   mapSet(deduped, recordId(records[i]), events[i]), fallback)
    ELSE eventLoop(records, events, i + 1, deduped, Append(fallback, events[i]))

\* [...deduped.values(), ...fallback] and the sort
orderedEvents(done) == sortEvents(mapValues(done.deduped) \o done.fallback)

\* the body of mapEventRecords on its records and the events built from them;
\* the first RangeError leaves the loop and the function
mapEvents(records, events) ==
    IF \E i \in 1..Len(events) : IsThrown(events[i])
    THEN [threw |-> TRUE, out |-> <<>>]
    ELSE [threw |-> FALSE,
          out |-> orderedEvents(eventLoop(records, events, 1, <<>>, <<>>))]

eventsOf(records) == [i \in 1..Len(records) |-> eventOf(records[i])]

\* mapEventRecords(raw): [threw, out]
mapEventRecords(raw) == mapEvents(eventRecords(raw), eventsOf(eventRecords(raw)))

\* ---- reminders ----

\* value ?? undefined
OrUndefined(v) == IF IsNullish(v) THEN Undef ELSE v

\* fallbackListName is a text, empty when the caller gives none
reminderOf(record, fallbackListName) ==
    [name |-> coerceString(Get(record, T_name), T_UntitledReminder),
     id |-> coerceString(Get(record, T_id), <<>>),
     body |-> coerceString(Get(record, T_body), <<>>),
     completed |-> coerceBooleanMail(Get(record, T_completed), FALSE),
     dueDate |-> toIsoString(Get(record, T_dueDate)),
     listName |-> coerceString(Get(record, T_listName),
                     IF fallbackListName # <<>> THEN fallbackListName ELSE T_Reminders),
     completionDate |-> OrUndefined(toIsoString(Get(record, T_completionDate))),
     creationDate |-> OrUndefined(toIsoString(Get(record, T_creationDate))),
     modificationDate |-> OrUndefined(toIsoString(Get(record, T_modificationDate))),
     remindMeDate |-> OrUndefined(toIsoString(Get(record, T_remindMeDate))),
     priority |-> coerceNumber(Get(record, T_priority))]

\* .filter((reminder) => reminder.id || reminder.name)
reminderKept(reminder) == reminder.id # <<>> \/ reminder.name # <<>>

reminderRecords(raw) ==
    IF IsArray(raw) THEN SelectSeq(raw.l, IsNonNullObject)
    ELSE IF raw.t = "rec" THEN <<raw>>
    ELSE <<>>

mapReminderRecords(raw, fallbackListName) ==
    SelectSeq([i \in 1..Len(reminderRecords(raw)) |->
                  reminderOf(reminderRecords(raw)[i], fallbackListName)],
              reminderKept)

\* ---- mail ----

\* the record of the first mail module; fallbackMailbox is a Str or Undef,
\* now is the clock read by toIsoDate
emailOf(record, fallbackMailbox, now) ==
    [subject |-> coerceString(Get(record, T_subject), T_NoSubject),
     sender |-> coerceString(Get(record, T_sender), T_UnknownSender),
     dateSent |-> toIsoDate(
                     Coalesce(Get(record, T_dateSent),
                       Coalesce(Get(record, T_date),
                         Coalesce(Get(record, T_sentDate),
                                  Get(record, T_receivedDate)))), now),
     content |-> coerceString(Get(record, T_content), T_ContentNotAvailable),
     isRead |-> coerceBooleanMail(Get(record, T_isRead), Truthy(Get(record, T_read))),
     mailbox |-> coerceString(
                     Coalesce(Get(record, T_mailbox),
                       Coalesce(fallbackMailbox, Str(T_UnknownMailbox))), <<>>)]

\* a filter that asks for both a subject and a sender
emailKeptBoth(email) == email.subject # <<>> /\ email.sender # <<>>

\* .filter((email) => email.subject || email.sender)
emailKept(email) == email.subject # <<>> \/ email.sender # <<>>

emailRecords(raw) ==
    IF IsArray(raw) THEN SelectSeq(raw.l, IsNonNullObject) ELSE <<>>

mapEmailRecords(raw, fallbackMailbox, now) ==
    SelectSeq([i \in 1..Len(emailRecords(raw)) |->
                  emailOf(emailRecords(raw)[i], fallbackMailbox, now)],
              emailKept)

-----------------------------------------------------------------------------
(* AppleScriptSourceParser.  Positions are 1-based: index i of the model   *)
(* is this.index = i - 1 of the code.  A parse step returns                *)
(* [ok, val, idx, err]: the value and the next index, or the error thrown. *)

POk(val, idx) == [ok |-> TRUE, val |-> val, idx |-> idx, err |-> ""]
PErr(err, idx) == [ok |-> FALSE, val |-> Undef, idx |-> idx, err |-> err]

\* peek at position i: the character, or "" for undefined
peekAt(input, i) == IF i >= 1 /\ i <= Len(input) THEN input[i] ELSE ""

isDigit(char) == char \in DigitSet

isWhitespaceChar(char) == char \in WhitespaceSet

\* /[A-Za-z0-9_]/
isKeyChar(char) ==
    \/ char \in DigitSet
    \/ char = "_"
    \/ \E k \in 1..26 : char = UpperLetters[k] \/ char = LowerLetters[k]

startsWith(input, i, value) ==
    i + Len(value) - 1 <= Len(input) /\ SubSeq(input, i, i + Len(value) - 1) = value

RECURSIVE skipWhitespace(_, _)
skipWhitespace(input, i) ==
    IF isWhitespaceChar(peekAt(input, i)) THEN skipWhitespace(input, i + 1) ELSE i

\* skipStringFrom(position): the index behind the closing quote, or 0 when the
\* literal is unterminated (the code throws)
RECURSIVE skipStringLoop(_, _)
skipStringLoop(input, index) ==
    IF index > Len(input) THEN 0
    ELSE IF input[index] = "\\" THEN skipStringLoop(input, index + 2)
    ELSE IF input[index] = "\"" THEN index + 1
    ELSE skipStringLoop(input, index + 1)

skipStringFrom(input, position) == skipStringLoop(input, position + 1)

\* a scan that reads a quote as any other character, so that the inside of
\* a string literal is scanned too
RECURSIVE scanCollectionPlain(_, _, _)
scanCollectionPlain(input, position, depth) ==
    IF position > Len(input) THEN "list"
    ELSE IF input[position] = "{" THEN scanCollectionPlain(input, position + 1, depth + 1)
    ELSE IF input[position] = "}"
    THEN IF depth = 0 THEN "list"
         ELSE scanCollectionPlain(input, position + 1, depth - 1)
    ELSE IF depth = 0 /\ input[position] = ":" THEN "record"
    ELSE IF depth = 0 /\ input[position] = "," THEN "list"
    ELSE scanCollectionPlain(input, position + 1, depth)

\* isRecordCollection from position with the given depth:
\* "record", "list", or "throw" (an unterminated string met while scanning)
RECURSIVE scanCollection(_, _, _)
scanCollection(input, position, depth) ==
    IF position > Len(input) THEN "list"
    ELSE IF isWhitespaceChar(input[position])
    THEN scanCollection(input, position + 1, depth)
    ELSE IF input[position] = "\""
    THEN IF skipStringFrom(input, position) = 0 THEN "throw"
         ELSE scanCollection(input, skipStringFrom(input, position), depth)
    ELSE IF input[position] = "{" THEN scanCollection(input, position + 1, depth + 1)
    ELSE IF input[position] = "}"
    THEN IF depth = 0 THEN "list"
         ELSE scanCollection(input, position + 1, depth - 1)
    ELSE IF depth = 0 /\ input[position] = ":" THEN "record"
    ELSE IF depth = 0 /\ input[position] = "," THEN "list"
    ELSE scanCollection(input, position + 1, depth)

isRecordCollection(input, i) == scanCollection(input, i, 0)

\* an escape read as the character behind the backslash, whatever it is
unescapeCharPlain(next) == next

\* the character an escape stands for
unescapeChar(next) ==
    CASE next = "n" -> "\n"
      [] next = "r" -> "\r"
      [] next = "t" -> "\t"
      [] OTHER -> next

\* the loop of parseString from index i with the text decoded so far
RECURSIVE parseStringLoop(_, _, _)
parseStringLoop(input, i, result) ==
    IF i > Len(input) THEN PErr("Unterminated string literal", i)
    ELSE IF input[i] = "\"" THEN POk(Str(result), i + 1)
    ELSE IF input[i] = "\\"
    THEN IF i + 1 > Len(input) THEN PErr("Unexpected end", i + 1)
         ELSE parseStringLoop(input, i + 2, Append(result, unescapeChar(input[i + 1])))
    ELSE parseStringLoop(input, i + 1, Append(result, input[i]))

\* parseString at an opening quote
parseString(input, i) ==
    IF peekAt(input, i) # "\"" THEN PErr("Expected quote", i)
    ELSE parseStringLoop(input, i + 1, <<>>)

RECURSIVE skipDigits(_, _)
skipDigits(input, i) ==
    IF isDigit(peekAt(input, i)) THEN skipDigits(input, i + 1) ELSE i

parseNumber(input, start) ==
    LET afterSign == IF peekAt(input, start) = "-" THEN start + 1 ELSE start
        afterInt == skipDigits(input, afterSign)
        end == IF peekAt(input, afterInt) = "."
               THEN skipDigits(input, afterInt + 1) ELSE afterInt
    IN  POk(StrToNum(SubSeq(input, start, end - 1)), end)

RECURSIVE skipBareword(_, _)
skipBareword(input, i) ==
    IF peekAt(input, i) = "" \/ peekAt(input, i) \in {",", "}"}
       \/ isWhitespaceChar(peekAt(input, i))
    THEN i ELSE skipBareword(input, i + 1)

parseBareword(input, start) ==
    IF skipBareword(input, start) = start
    THEN PErr("Unable to parse AppleScript value", start)
    ELSE POk(Str(SubSeq(input, start, skipBareword(input, start) - 1)),
             skipBareword(input, start))

RECURSIVE skipKeyChars(_, _)
skipKeyChars(input, i) ==
    IF isKeyChar(peekAt(input, i)) THEN skipKeyChars(input, i + 1) ELSE i

parseKey(input, i0) ==
    LET i == skipWhitespace(input, i0)
    IN  IF peekAt(input, i) = "" THEN PErr("Unexpected end while parsing key", i)
        ELSE IF peekAt(input, i) = "\"" THEN parseString(input, i)
        ELSE IF skipKeyChars(input, i) = i THEN PErr("Invalid record key", i)
        ELSE POk(Str(SubSeq(input, i, skipKeyChars(input, i) - 1)),
                 skipKeyChars(input, i))

\* a consume that takes the next character whatever it is
consumeAny(input, i, expected) ==
    IF i > Len(input) THEN PErr("Unexpected end", i) ELSE POk(Undef, i + 1)

\* consume(expected) at index i
consume(input, i, expected) ==
    IF i > Len(input) THEN PErr("Unexpected end", i)
    ELSE IF input[i] # expected THEN PErr("Expected character", i)
    ELSE POk(Undef, i + 1)

\* a key JavaScript orders as an integer index: canonical decimal digits
isIndexKey(key) ==
    key # <<>> /\ AllDigits(key) /\ (Len(key) = 1 \/ key[1] # "0")

\* where a new key goes in the property order: integer keys ascending before
\* all other keys, other keys in insertion order
RECURSIVE insertKey(_, _, _)
insertKey(entries, key, value) ==
    IF entries = <<>> THEN <<KV(key, value)>>
    ELSE IF isIndexKey(key)
            /\ (~isIndexKey(Head(entries).k)
                \/ DigitsToNat(Head(entries).k) > DigitsToNat(key))
    THEN <<KV(key, value)>> \o entries
    ELSE <<Head(entries)>> \o insertKey(Tail(entries), key, value)

\* the key whose assignment goes to the setter of Object.prototype
ProtoKey == <<"_", "_", "p", "r", "o", "t", "o", "_", "_">>

\* result[key] = value.  Under the key __proto__ the assignment creates no own
\* property (it sets the prototype when value is an object or null, which the
\* entries of the model do not show, and does nothing otherwise).
objectSet(entries, key, value) ==
    IF key = ProtoKey THEN entries
    ELSE IF \E j \in 1..Len(entries) : entries[j].k = key
    THEN [j \in 1..Len(entries) |->
             IF entries[j].k = key THEN KV(key, value) ELSE entries[j]]
    ELSE insertKey(entries, key, value)

RECURSIVE parseValue(_, _)
RECURSIVE parseRecordLoop(_, _, _)
RECURSIVE parseListLoop(_, _, _)

\* skipWhitespace(); consume("}") at the end of a collection
closeCollection(input, i0, val) ==
    LET i == skipWhitespace(input, i0)
    IN  IF consume(input, i, "}").ok THEN POk(val, i + 1)
        ELSE consume(input, i, "}")

parseRecordLoop(input, i, result) ==
    LET key == parseKey(input, i)
        colon == consume(input, skipWhitespace(input, key.idx), ":")
        value == parseValue(input, colon.idx)
        set == objectSet(result, key.val.s, value.val)
        next == skipWhitespace(input, value.idx)
    IN  IF ~key.ok THEN key
        ELSE IF ~colon.ok THEN colon
        ELSE IF ~value.ok THEN value
        ELSE IF peekAt(input, next) = "," THEN parseRecordLoop(input, next + 1, set)
        ELSE closeCollection(input, next, Rec(set))

parseListLoop(input, i, list) ==
    LET value == parseValue(input, i)
        next == skipWhitespace(input, value.idx)
    IN  IF ~value.ok THEN value
        ELSE IF peekAt(input, next) = ","
        THEN parseListLoop(input, next + 1, Append(list, value.val))
        ELSE closeCollection(input, next, List(Append(list, value.val)))

\* the branch parseCollection takes on the body that starts at index i:
\* "empty", "record", "list", or "throw" (isRecordCollection threw)
collectionBranch(input, i) ==
    IF peekAt(input, i) = "}" THEN "empty" ELSE isRecordCollection(input, i)

\* parseCollection at an opening brace
parseCollection(input, i0) ==
    LET i == skipWhitespace(input, i0 + 1)
        branch == collectionBranch(input, i)
    IN  IF branch = "empty" THEN POk(List(<<>>), i + 1)
        ELSE IF branch = "throw"
        THEN PErr("Unterminated string literal detected while scanning", i)
        ELSE IF branch = "record" THEN parseRecordLoop(input, i, <<>>)
        ELSE parseListLoop(input, i, <<>>)

parseValue(input, i0) ==
    LET i == skipWhitespace(input, i0)
        char == peekAt(input, i)
    IN  IF char = "" THEN PErr("Unexpected end", i)
        ELSE IF char = "{" THEN parseCollection(input, i)
        ELSE IF char = "\"" THEN parseString(input, i)
        ELSE IF startsWith(input, i, T_missing_value)
        THEN POk(Null, i + Len(T_missing_value))
        ELSE IF startsWith(input, i, T_true) THEN POk(Bool(TRUE), i + Len(T_true))
        ELSE IF startsWith(input, i, T_false) THEN POk(Bool(FALSE), i + Len(T_false))
        ELSE IF char = "-" \/ isDigit(char) THEN parseNumber(input, i)
        ELSE parseBareword(input, i)

\* a parse that returns the top-level value whatever follows it
parseUnchecked(input) == parseValue(input, skipWhitespace(input, 1))

\* parse(): the single top-level value, then nothing but white space
parse(input) ==
    LET value == parseValue(input, skipWhitespace(input, 1))
    IN  IF ~value.ok THEN value
        ELSE IF skipWhitespace(input, value.idx) <= Len(input)
        THEN PErr("Unexpected trailing content", skipWhitespace(input, value.idx))
        ELSE value

\* raw.replace(/^=>\s*/, "")
stripPrefix(text) ==
    IF startsWith(text, 1, <<"=", ">">>)
    THEN SubSeq(text, skipWhitespace(text, 3), Len(text))
    ELSE text

\* parseAppleScriptResult(raw).  The bridge result raw is a value: a Str is
\* the text the bridge printed, a list or record an already-structured result.
parseAppleScriptResult(raw) ==
    IF IsNullish(raw) THEN POk(Null, 0)
    ELSE IF IsArray(raw) THEN POk(raw, 0)
    ELSE IF IsObjectType(raw) THEN POk(raw, 0)
    ELSE IF ~IsString(raw) THEN PErr("Unsupported AppleScript return type", 0)
    ELSE IF Trim(raw.s) = <<>> THEN POk(Null, 0)
    ELSE parse(stripPrefix(Trim(raw.s)))

-----------------------------------------------------------------------------
(* The operations.  Each *Run operator is the handler from its access     *)
(* check to its return or throw, given what the environment supplies: the  *)
(* outcome of the access probe and the bridge result.  Its value is the    *)
(* set of outcomes [kind, err, detail, out, handed, stages]:               *)
(*   kind    "ok" (returned) or "error" (threw, or returned a failure)     *)
(*   err     which error                                                   *)
(*   detail  the text read from the envelope's reason                      *)
(*   out     the entities returned                                         *)
(*   handed  the value given to the mapper                                 *)
(*   stages  the stages run, in order: probe, bridge, parse, status, map   *)

Returned(out, handed, stages) ==
    [kind |-> "ok", err |-> "", detail |-> <<>>, out |-> out,
     handed |-> handed, stages |-> stages]
Failed(err, detail, stages) ==
    [kind |-> "error", err |-> err, detail |-> detail, out |-> <<>>,
     handed |-> Undef, stages |-> stages]

Min(a, b) == IF a < b THEN a ELSE b
Max(a, b) == IF a > b THEN a ELSE b

\* array.slice(0, n) for n >= 0
Slice(seq, n) == SubSeq(seq, 1, Min(n, Len(seq)))

MAX_NOTES == 50
MAX_EVENTS == 50
MAX_REMINDERS == 50
MAX_EMAILS == 20

\* rawResult && typeof rawResult === "object" && !Array.isArray(rawResult)
\*   && coerceString(rawResult.status) === "error"
isStatusError(rawResult) ==
    rawResult.t = "rec" /\ coerceString(Get(rawResult, T_status), <<>>) = T_error

\* const reason = coerceString(rawResult.reason)
statusReason(rawResult) == coerceString(Get(rawResult, T_reason), <<>>)

\* fetchNotes({limit}); limit is Undef or a Num
fetchNotesRun(access, limit, raw) ==
    LET maxNotes == Max(1, Min(Coalesce(limit, Num(MAX_NOTES)).n, MAX_NOTES))
        parsed == parseAppleScriptResult(raw)
    IN  IF ~access THEN {Failed("access", <<>>, <<"probe">>)}
        ELSE IF ~parsed.ok
        THEN {Failed("parse", <<>>, <<"probe", "bridge", "parse">>)}
        ELSE IF isStatusError(parsed.val)
        THEN {Failed("status", statusReason(parsed.val),
                     <<"probe", "bridge", "parse", "status">>)}
        ELSE {Returned(Slice(notes, maxNotes), parsed.val,
                       <<"probe", "bridge", "parse", "status", "map">>) :
                 notes \in mapNoteRecords(parsed.val)}

\* the date-range filter of fetchEvents
eventInRange(event, startMs, endMs) ==
    LET start == IF event.startDate.t = "str" THEN DateParse(event.startDate.s)
                 ELSE InvalidDate
        end == IF event.endDate.t = "str" THEN DateParse(event.endDate.s)
               ELSE InvalidDate
        effectiveStart == IF start.b THEN start ELSE end
        effectiveEnd == IF end.b THEN end ELSE effectiveStart
    IN  IF ~effectiveStart.b /\ ~effectiveEnd.b THEN TRUE
        ELSE effectiveEnd.b /\ effectiveStart.b
             /\ effectiveEnd.n >= startMs /\ effectiveStart.n <= endMs

\* fetchEvents({fromDate, toDate, limit}); limit is a Num, or Undef
fetchEventsRun(access, limit, startMs, endMs, raw) ==
    LET maxEvents == IF IsNumber(limit) THEN Max(1, Min(limit.n, MAX_EVENTS))
                     ELSE 0   \* Math.min(undefined, 50) is NaN; slice(0, NaN) is empty
        InRange(event) == eventInRange(event, startMs, endMs)
    IN  IF ~access THEN {Failed("access", <<>>, <<"probe">>)}
        ELSE IF isStatusError(raw)
        THEN {Failed("status", statusReason(raw), <<"probe", "bridge", "status">>)}
        ELSE {IF mapped.threw
              THEN Failed("RangeError", <<>>, <<"probe", "bridge", "status", "map">>)
              ELSE Returned(Slice(SelectSeq(mapped.out, InRange), maxEvents), raw,
                            <<"probe", "bridge", "status", "map">>) :
                 mapped \in {mapEventRecords(raw)}}

\* fetchReminders({listName}); listName is a text, empty for none
fetchRemindersRun(access, listName, raw) ==
    IF ~access THEN {Failed("access", <<>>, <<"probe">>)}
    ELSE IF isStatusError(raw)
    THEN {Failed("status", statusReason(raw), <<"probe", "bridge", "status">>)}
    ELSE {Returned(mapReminderRecords(raw, Trim(listName)), raw,
                   <<"probe", "bridge", "status", "map">>)}

\* createReminder: the result goes straight to the mapper
createReminderRun(access, listName, raw) ==
    IF ~access THEN {Failed("access", <<>>, <<"probe">>)}
    ELSE {IF reminders = <<>>
          THEN Failed("Failed to create reminder.", <<>>, <<"probe", "bridge", "map">>)
          ELSE Returned(<<reminders[1]>>, raw, <<"probe", "bridge", "map">>) :
             reminders \in {mapReminderRecords(raw, listName)}}

\* getLatestMails(account, limit) of the first mail module; a blank account
\* returns before any script is sent
getLatestMailsRun(access, account, now, raw) ==
    IF ~access THEN {Failed("access", <<>>, <<"probe">>)}
    ELSE IF Trim(account) = <<>> THEN {Returned(<<>>, Undef, <<"probe">>)}
    ELSE IF isStatusError(raw)
    THEN {Failed("status", statusReason(raw), <<"probe", "bridge", "status">>)}
    ELSE {Returned(mapEmailRecords(raw, Str(account), now), raw,
                   <<"probe", "bridge", "status", "map">>)}

\* getUnreadMails(limit): no script when the limit is not positive
getUnreadMailsRun(access, limit, now, raw) ==
    IF ~access THEN {Failed("access", <<>>, <<"probe">>)}
    ELSE IF Min(limit.n, MAX_EMAILS) <= 0 THEN {Returned(<<>>, Undef, <<"probe">>)}
    ELSE {Returned(mapEmailRecords(raw, Undef, now), raw,
                   <<"probe", "bridge", "map">>)}

\* createNote(title, body, folderName); titleOk says the title is not blank
createNoteRun(access, titleOk, raw) ==
    LET parsed == parseAppleScriptResult(raw)
        rawResult == parsed.val
    IN  IF ~access THEN {Failed("access", <<>>, <<"probe">>)}
        ELSE IF ~titleOk THEN {Failed("validation", <<>>, <<"probe">>)}
        ELSE IF ~parsed.ok
        THEN {Failed("parse", <<>>, <<"probe", "bridge", "parse">>)}
        ELSE IF rawResult.t # "rec"
        THEN {Failed("no response", <<>>, <<"probe", "bridge", "parse", "status">>)}
        ELSE IF coerceString(Get(rawResult, T_status), <<>>) # T_success
        THEN {Failed("status", statusReason(rawResult),
                     <<"probe", "bridge", "parse", "status">>)}
        ELSE {Returned(Slice(notes, 1), Get(rawResult, T_noteRecord),
                       <<"probe", "bridge", "parse", "status", "map">>) :
                 notes \in mapNoteRecords(
                     Get(rawResult, T_noteRecord))}

\* createEvent(title, startDate, endDate, ...); inputsOk says the title and
\* the dates pass validation
createEventRun(access, inputsOk, raw) ==
    IF ~access THEN {Failed("access", <<>>, <<"probe">>)}
    ELSE IF ~inputsOk THEN {Failed("validation", <<>>, <<"probe">>)}
    ELSE IF raw.t # "rec"
    THEN {Failed("no response", <<>>, <<"probe", "bridge", "status">>)}
    ELSE IF coerceString(Get(raw, T_status), <<>>) # T_success
    THEN {Failed("status", statusReason(raw), <<"probe", "bridge", "status">>)}
    ELSE {IF mapped.threw
          THEN Failed("RangeError", <<>>, <<"probe", "bridge", "status", "map">>)
          ELSE Returned(Slice(mapped.out, 1), Get(raw, T_eventRecord),
                        <<"probe", "bridge", "status", "map">>) :
             mapped \in {mapEventRecords(Get(raw, T_eventRecord))}}

-----------------------------------------------------------------------------
(* The bridge.  With humanReadableOutput off, osascript prints a result in *)
(* AppleScript source form: text quoted and escaped, lists and records in  *)
(* braces, missing value for null.                                         *)

RECURSIVE escapeText(_)
escapeText(text) ==
    IF text = <<>> THEN <<>>
    ELSE (CASE Head(text) = "\"" -> <<"\\", "\"">>
            [] Head(text) = "\\" -> <<"\\", "\\">>
            [] OTHER -> <<Head(text)>>)
         \o escapeText(Tail(text))

RECURSIVE sourceForm(_)
RECURSIVE sourceItems(_, _)
RECURSIVE sourceEntries(_, _)
sourceItems(l, i) ==
    IF i > Len(l) THEN <<>>
    ELSE (IF i > 1 THEN <<",", " ">> ELSE <<>>) \o sourceForm(l[i])
         \o sourceItems(l, i + 1)

sourceEntries(r, i) ==
    IF i > Len(r) THEN <<>>
    ELSE (IF i > 1 THEN <<",", " ">> ELSE <<>>) \o r[i].k \o <<":">>
         \o sourceForm(r[i].v) \o sourceEntries(r, i + 1)

sourceForm(v) ==
    CASE v.t = "str" -> <<"\"">> \o escapeText(v.s) \o <<"\"">>
      [] v.t = "num" -> FiniteToText(v.n, v.e)
      [] v.t = "bool" -> IF v.b THEN T_true ELSE T_false
      [] v.t = "list" -> <<"{">> \o sourceItems(v.l, 1) \o <<"}">>
      [] v.t = "rec" -> <<"{">> \o sourceEntries(v.r, 1) \o <<"}">>
      [] OTHER -> T_missing_value

\* all sequences over S of length 0..n
SeqsUpTo(S, n) == UNION {[1..k -> S] : k \in 0..n}

-----------------------------------------------------------------------------
(* The inputs of the operations.                                           *)

\* two well-formed records, readable by every mapper (short, to keep the
\* printed batches short)
SampleRecord(tag, seconds) ==
    Rec(<<KV(T_id, Str(<<tag>>)), KV(T_name, Str(<<tag>>)),
          KV(T_startDate, Num(seconds))>>)
SampleRecords == {SampleRecord("a", 1), SampleRecord("b", MaxSec)}

\* what a script returns on success: a list of records
SampleBatches == {List(l) : l \in SeqsUpTo(SampleRecords, MaxBatch)}

\* status envelopes: a status of several shapes, with or without a reason
StatusValues == {Str(T_error), Str(T_success), List(<<Str(T_error)>>), Null}
ReasonValues == {Str(T_folder_not_found), Str(T_calendar_not_found), Str(<<"x">>)}
StatusEnvelopes ==
    {Rec(<<KV(T_status, st)>>) : st \in StatusValues}
    \cup {Rec(<<KV(T_status, st), KV(T_reason, rs)>>) :
             st \in StatusValues, rs \in ReasonValues}
    \cup {Rec(<<KV(T_reason, rs)>>) : rs \in ReasonValues}
    \cup {Rec(<<KV(T_status, Str(T_success)), KV(T_noteRecord, rc),
                KV(T_eventRecord, rc)>>) : rc \in SampleRecords}

StructuredResults == SampleBatches \cup StatusEnvelopes

\* The bridge result: run-applescript resolves to the text osascript
\* printed, here the source form of a result, nothing, or a cut-off text
BridgeResults ==
    {Str(sourceForm(v)) : v \in StructuredResults}
    \cup {Str(<<>>), Str(<<"{">>)}

NoteLimits == {Undef, Num(0), Num(1), Num(MaxBatch)}
EventLimits == {Num(1), Num(MaxBatch)}
MailLimits == {Num(0), Num(MaxBatch)}
DateRanges == {<<0, MaxTimeMs>>, <<0, 1000>>}
ListNames == {<<>>, <<"L">>}
Accounts == {<<>>, <<"A">>}
Clock == {0, 1000}

Arg(access, ok, limit, text, range, now, raw) ==
    [access |-> access, ok |-> ok, limit |-> limit, text |-> text,
     range |-> range, now |-> now, raw |-> raw]

NoArg == Arg(FALSE, FALSE, Undef, <<>>, <<0, 0>>, 0, Undef)
NoResult == Failed("", <<>>, <<>>)

\* no parser constructed
NoParser ==
    [input |-> <<>>, index |-> 0, start |-> 0, position |-> 0, depth |-> 0,
     scan |-> 0, entered |-> 0, caller |-> "none", frames |-> <<>>]

\* nothing running step by step, no temporary file, nothing cached
Idle ==
    /\ pc = "idle"
    /\ tmpFile = 0
    /\ disk = {}
    /\ cachedDocuments = Null
    /\ loads = 0
    /\ parser = NoParser

Init ==
    /\ op = "none"
    /\ arg = NoArg
    /\ steps = <<>>
    /\ res = NoResult
    /\ Idle

\* one call of an operation (made when no call is pending, op = "none"):
\* its inputs, and one of its outcomes
Call(name, inputs, outcomes) ==
    \E r \in outcomes :
        /\ op' = name
        /\ arg' = inputs
        /\ res' = r
        /\ steps' = r.stages
        /\ UNCHANGED stepVars

\* what the bridge can answer: nothing when the access probe fails
Answers(access) == IF access THEN BridgeResults ELSE {Undef}

FetchNotes ==
    /\ op = "none"
    /\ \E access \in BOOLEAN, limit \in NoteLimits :
        \E raw \in Answers(access) :
            Call("fetchNotes", Arg(access, TRUE, limit, <<>>, <<0, 0>>, 0, raw),
                 fetchNotesRun(access, limit, raw))

FetchEvents ==
    /\ op = "none"
    /\ \E access \in BOOLEAN, limit \in EventLimits, range \in DateRanges :
        \E raw \in Answers(access) :
            Call("fetchEvents", Arg(access, TRUE, limit, <<>>, range, 0, raw),
                 fetchEventsRun(access, limit, range[1], range[2], raw))

FetchReminders ==
    /\ op = "none"
    /\ \E access \in BOOLEAN, listName \in ListNames :
        \E raw \in Answers(access) :
            Call("fetchReminders", Arg(access, TRUE, Undef, listName, <<0, 0>>, 0, raw),
                 fetchRemindersRun(access, listName, raw))

CreateReminder ==
    /\ op = "none"
    /\ \E access \in BOOLEAN, listName \in ListNames :
        \E raw \in Answers(access) :
            Call("createReminder", Arg(access, TRUE, Undef, listName, <<0, 0>>, 0, raw),
                 createReminderRun(access, listName, raw))

GetLatestMails ==
    /\ op = "none"
    /\ \E access \in BOOLEAN, account \in Accounts, now \in Clock :
        \E raw \in Answers(access /\ account # <<>>) :
            Call("getLatestMails", Arg(access, TRUE, Undef, account, <<0, 0>>, now, raw),
                 getLatestMailsRun(access, account, now, raw))

GetUnreadMails ==
    /\ op = "none"
    /\ \E access \in BOOLEAN, limit \in MailLimits, now \in Clock :
        \E raw \in Answers(access /\ limit.n > 0) :
            Call("getUnreadMails", Arg(access, TRUE, limit, <<>>, <<0, 0>>, now, raw),
                 getUnreadMailsRun(access, limit, now, raw))

CreateNote ==
    /\ op = "none"
    /\ \E access \in BOOLEAN, titleOk \in BOOLEAN :
        \E raw \in Answers(access /\ titleOk) :
            Call("createNote", Arg(access, titleOk, Undef, <<>>, <<0, 0>>, 0, raw),
                 createNoteRun(access, titleOk, raw))

CreateEvent ==
    /\ op = "none"
    /\ \E access \in BOOLEAN, inputsOk \in BOOLEAN :
        \E raw \in Answers(access /\ inputsOk) :
            Call("createEvent", Arg(access, inputsOk, Undef, <<>>, <<0, 0>>, 0, raw),
                 createEventRun(access, inputsOk, raw))

\* the caller takes the outcome; the next call can be made
Return ==
    /\ op # "none"
    /\ op' = "none"
    /\ arg' = NoArg
    /\ steps' = <<>>
    /\ res' = NoResult
    /\ UNCHANGED stepVars

NextFetch ==
    \/ Return
    \/ FetchNotes
    \/ FetchEvents
    \/ FetchReminders
    \/ CreateReminder
    \/ GetLatestMails
    \/ GetUnreadMails
    \/ CreateNote
    \/ CreateEvent

\* the operations, called one after another with any inputs
SpecFetch == Init /\ [][NextFetch]_vars

-----------------------------------------------------------------------------
(* The mappers on their own, given any batch of items.                     *)

\* a record of the fields that are present
Present(entry) == entry.v.t # "undef"
Record(entries) == Rec(SelectSeq(entries, Present))

\* epoch seconds: early, late, and beyond the range of a Date
Early == Num(1)
Late == Num(MaxSec)
OutOfRange == Num(MaxSec + 1)

\* the id an id-less record titled "A" with no start and no calendar gets
T_SynthesizedId == <<"A">> \o <<"-">> \o T_unknown \o <<"-">> \o T_UnknownCalendar

EventRecord(id, title, startDate, endDate) ==
    Record(<<KV(T_id, id), KV(T_title, title), KV(T_startDate, startDate),
             KV(T_endDate, endDate)>>)

EventItems ==
    {EventRecord(Str(<<"E", "1">>), Str(<<"A">>), Late, Undef),
     EventRecord(Str(<<"E", "1">>), Str(<<"B">>), Early, Undef),
     EventRecord(Str(<<"E", "2">>), Undef, Early, Late),
     EventRecord(Undef, Undef, Early, Early),
     EventRecord(Undef, Str(<<"B">>), Undef, Early),
     EventRecord(Undef, Str(<<"A">>), Undef, Undef),
     EventRecord(Str(T_SynthesizedId), Str(<<"B">>), Early, Undef),
     EventRecord(Str(<<"E", "3">>), Undef, OutOfRange, Undef),
     EventRecord(List(<<>>), Num(7), Str(<<"x">>), Null),
     Null,
     List(<<>>)}

NoteRecord(name, modificationDate, creationDate) ==
    Record(<<KV(T_name, name), KV(T_modificationDate, modificationDate),
             KV(T_creationDate, creationDate)>>)

NoteItems ==
    {NoteRecord(Str(<<"a">>), Early, Undef),
     NoteRecord(Str(<<"b">>), Late, Undef),
     NoteRecord(Str(<<"c">>), Undef, Late),
     NoteRecord(Str(<<"d">>), Early, Late),
     NoteRecord(Str(<<"e">>), Undef, Undef),
     NoteRecord(Str(<<"f">>), OutOfRange, Undef),
     NoteRecord(Num(5), Str(<<"x">>), Null),
     Null}

ReminderRecord(id, name, dueDate) ==
    Record(<<KV(T_id, id), KV(T_name, name), KV(T_dueDate, dueDate)>>)

ReminderItems ==
    {ReminderRecord(Str(<<>>), Str(<<>>), Undef),
     ReminderRecord(Undef, Str(<<>>), Undef),
     ReminderRecord(Str(<<>>), Str(<<"n">>), Undef),
     ReminderRecord(Str(<<"r">>), Str(<<>>), Undef),
     ReminderRecord(Undef, Undef, Undef),
     ReminderRecord(Str(<<"r">>), Str(<<"n">>), Str(<<"x">>)),
     ReminderRecord(List(<<>>), List(<<>>), Null),
     Null}

EmailRecord(subject, sender, dateSent) ==
    Record(<<KV(T_subject, subject), KV(T_sender, sender), KV(T_dateSent, dateSent)>>)

EmailItems ==
    {EmailRecord(Str(<<>>), Str(<<>>), Undef),
     EmailRecord(Str(<<>>), Str(<<"x">>), Undef),
     EmailRecord(Str(<<"s">>), Str(<<>>), Undef),
     EmailRecord(Str(<<>>), Undef, Undef),
     EmailRecord(Undef, Undef, Undef),
     EmailRecord(Str(<<"s">>), Str(<<"x">>), Str(<<"x">>)),
     EmailRecord(List(<<>>), Str(<<>>), Null),
     Null}

\* what a mapper can be given: a list of items, one item, or a scalar
MapperInputs(items) ==
    {List(l) : l \in SeqsUpTo(items, MaxBatch)} \cup items \cup {Str(<<"x">>)}

MapperArg(text, now, raw) == Arg(TRUE, TRUE, Undef, text, <<0, 0>>, now, raw)

MapNotes ==
    /\ op = "none"
    /\ \E raw \in MapperInputs(NoteItems) :
        Call("mapNoteRecords", MapperArg(<<>>, 0, raw),
             {Returned(notes, raw, <<"map">>) : notes \in mapNoteRecords(raw)})

MapEvents ==
    /\ op = "none"
    /\ \E raw \in MapperInputs(EventItems) :
        Call("mapEventRecords", MapperArg(<<>>, 0, raw),
             {IF mapped.threw THEN Failed("RangeError", <<>>, <<"map">>)
              ELSE Returned(mapped.out, raw, <<"map">>) :
                 mapped \in {mapEventRecords(raw)}})

MapReminders ==
    /\ op = "none"
    /\ \E raw \in MapperInputs(ReminderItems), listName \in ListNames :
        Call("mapReminderRecords", MapperArg(listName, 0, raw),
             {Returned(mapReminderRecords(raw, listName), raw, <<"map">>)})

\* the fallback mailbox: none for an empty account
FallbackMailbox(account) == IF account = <<>> THEN Undef ELSE Str(account)

MapEmails ==
    /\ op = "none"
    /\ \E raw \in MapperInputs(EmailItems), account \in Accounts, now \in Clock :
        Call("mapEmailRecords", MapperArg(account, now, raw),
             {Returned(mapEmailRecords(raw, FallbackMailbox(account), now),
                       raw, <<"map">>)})

NextMap ==
    \/ Return
    \/ MapNotes
    \/ MapEvents
    \/ MapReminders
    \/ MapEmails

\* the mappers, called one after another with any batch
SpecMap == Init /\ [][NextMap]_vars

-----------------------------------------------------------------------------
(* The parser on its own, given any short text.                            *)

\* the characters the texts are made of: the structural characters, the
\* quote, the backslash, white space and a letter
Alphabet == {"{", "}", ":", ",", "\"", "\\", " ", "a"}

ShortTexts == SeqsUpTo(Alphabet, MaxText)

\* every short text, bare and inside a pair of braces
ParserTexts == ShortTexts \cup {<<"{">> \o t \o <<"}">> : t \in ShortTexts}

\* the branch parseCollection takes on the top-level value, "none" when the
\* value is not a collection
topBranch(input) ==
    IF peekAt(input, skipWhitespace(input, 1)) = "{"
    THEN collectionBranch(input, skipWhitespace(input, skipWhitespace(input, 1) + 1))
    ELSE "none"

\* new AppleScriptSourceParser(text).parse()
Parse ==
    /\ op = "none"
    /\ \E text \in ParserTexts :
        Call("parse", MapperArg(<<>>, 0, Str(text)),
             {IF parse(text).ok
              THEN Returned(<<parse(text).val>>, Str(text), <<"parse", topBranch(text)>>)
              ELSE Failed(parse(text).err, <<>>, <<"parse", topBranch(text)>>)})

NextParse ==
    \/ Return
    \/ Parse

\* the parser, called on one text after another
SpecParse == Init /\ [][NextParse]_vars

-----------------------------------------------------------------------------
(* Properties of the operations.                                           *)

\* the stage occurs in the trace of the pending call
StageRun(stage) == \E k \in 1..Len(steps) : steps[k] = stage

\* the operations with a status check on a fetched collection
StatusOperations == {"fetchNotes", "fetchEvents", "fetchReminders", "getLatestMails"}

\* a top-level record whose status is the string "error"
IsErrorEnvelope(v) == v.t = "rec" /\ Get(v, T_status) = Str(T_error)

(* C1: in fetchNotes, fetchEvents, fetchReminders and getLatestMails a      *)
(* status error is raised if and only if the value the bridge result        *)
(* denotes is a top-level record whose status is the string "error"; the   *)
(* detail is then the record's reason and no mapper runs; any other value  *)
(* raises no status error and is handed to the mapper unchanged.           *)
C1_StatusErrorIffErrorEnvelope ==
    (op \in StatusOperations /\ StageRun("bridge")
        /\ parseAppleScriptResult(arg.raw).ok)
    => LET v == parseAppleScriptResult(arg.raw).val
       IN  /\ (res.err = "status") <=> IsErrorEnvelope(v)
           /\ IsErrorEnvelope(v)
                => /\ ~StageRun("map")
                   /\ Get(v, T_reason).t = "str" => res.detail = Get(v, T_reason).s
           /\ ~IsErrorEnvelope(v) => (StageRun("map") /\ res.handed = v)

(* C2: in every operation, whenever a mapper runs on a bridge result, the  *)
(* result has first gone through the parser and then through the status    *)
(* check.                                                                  *)
C2_ParsedAndCheckedBeforeMapped ==
    \A k \in 1..Len(steps) :
        steps[k] = "map"
        => \E i, j \in 1..Len(steps) :
               i < j /\ j < k /\ steps[i] = "parse" /\ steps[j] = "status"

-----------------------------------------------------------------------------
(* Properties of the parser.                                               *)

\* Reading a collection body character by character: the mode ("code",
\* inside a string literal "text", behind a backslash "escape") and the
\* depth of nested groups in front of each character from index i on, and
\* behind the last one
RECURSIVE lexStates(_, _, _, _)
lexStates(input, i, mode, depth) ==
    IF i > Len(input) THEN <<[mode |-> mode, depth |-> depth]>>
    ELSE <<[mode |-> mode, depth |-> depth]>>
         \o lexStates(input, i + 1,
                CASE mode = "code" /\ input[i] = "\"" -> "text"
                  [] mode = "text" /\ input[i] = "\\" -> "escape"
                  [] mode = "text" /\ input[i] = "\"" -> "code"
                  [] mode = "escape" -> "text"
                  [] OTHER -> mode,
                CASE mode = "code" /\ input[i] = "{" -> depth + 1
                  [] mode = "code" /\ input[i] = "}" -> depth - 1
                  [] OTHER -> depth)

\* index of the first character that is not white space, Len + 1 if none
FirstNonBlank(input) ==
    IF \E i \in 1..Len(input) : input[i] \notin WhitespaceSet
    THEN CHOOSE i \in 1..Len(input) :
             /\ input[i] \notin WhitespaceSet
             /\ \A j \in 1..(i - 1) : input[j] \in WhitespaceSet
    ELSE Len(input) + 1

\* What a collection that opens at index open is, by the rule: at depth 0
\* and outside string literals, the first of ":", "," and "}" decides;
\* "empty" when only white space precedes the closing brace, "throw" when no
\* character decides and a string literal is left open
ClassOfCollection(input, open) ==
    LET states == lexStates(input, open + 1, "code", 0)
        Decides(k) == /\ states[k].mode = "code"
                      /\ states[k].depth = 0
                      /\ input[open + k] \in {":", ",", "}"}
        deciding == {k \in 1..(Len(input) - open) : Decides(k)}
        first == CHOOSE k \in deciding : \A m \in deciding : k <= m
    IN  IF deciding = {}
        THEN (IF states[Len(states)].mode = "code" THEN "list" ELSE "throw")
        ELSE IF input[open + first] = ":" THEN "record"
        ELSE IF input[open + first] = "}"
                /\ \A m \in 1..(first - 1) : input[open + m] \in WhitespaceSet
        THEN "empty"
        ELSE "list"

(* C4: for a text whose top-level value is a brace-delimited collection,   *)
(* the parser takes the collection for empty, a record or a list exactly   *)
(* as the rule says (first ":" , "," or "}" at depth 0 outside string      *)
(* literals), and a successful parse returns the empty list, a record or a *)
(* non-empty list accordingly.                                             *)
C4_CollectionClassifiedByFirstSeparator ==
    (op = "parse" /\ peekAt(arg.raw.s, FirstNonBlank(arg.raw.s)) = "{")
    => LET class == ClassOfCollection(arg.raw.s, FirstNonBlank(arg.raw.s))
       IN  /\ steps[2] = class
           /\ res.kind = "ok"
                => CASE class = "empty" -> res.out[1] = List(<<>>)
                     [] class = "record" -> res.out[1].t = "rec"
                     [] class = "list" -> res.out[1].t = "list" /\ res.out[1].l # <<>>
                     [] OTHER -> FALSE

\* a collection that opens with a string literal holding a colon was
\* taken for a list, and the list with that string in it returned
C4_ColonInsideStringParsed ==
    /\ op = "parse"
    /\ steps[2] = "list"
    /\ res.kind = "ok"
    /\ res.out[1].t = "list"
    /\ arg.raw.s[1] = "{"
    /\ arg.raw.s[2] = "\""
    /\ res.out[1].l[1].t = "str"
    /\ \E i \in 1..Len(res.out[1].l[1].s) : res.out[1].l[1].s[i] = ":"

(* C5: parse fails, returning no value, whenever a character that is not   *)
(* white space remains behind the top-level value, and returns the value   *)
(* when only white space remains.                                          *)
C5_TrailingContentRejected ==
    (op = "parse" /\ parseValue(arg.raw.s, 1).ok)
    => LET value == parseValue(arg.raw.s, 1)
       IN  IF \E j \in value.idx..Len(arg.raw.s) : arg.raw.s[j] \notin WhitespaceSet
           THEN res.kind = "error" /\ res.out = <<>>
           ELSE res.kind = "ok" /\ res.out = <<value.val>>

\* a text with a value, white space and then another character was
\* rejected
C5_TrailingContentSeen ==
    /\ op = "parse"
    /\ parseValue(arg.raw.s, 1).ok
    /\ parseValue(arg.raw.s, 1).idx < Len(arg.raw.s)
    /\ arg.raw.s[parseValue(arg.raw.s, 1).idx] \in WhitespaceSet
    /\ arg.raw.s[Len(arg.raw.s)] \notin WhitespaceSet
    /\ res.kind = "error"
    /\ res.err = "Unexpected trailing content"

-----------------------------------------------------------------------------
(* Properties of the mappers.                                              *)

MapperOperations ==
    {"mapNoteRecords", "mapEventRecords", "mapReminderRecords", "mapEmailRecords"}

\* the items of the batch a mapper reads as records
BatchRecords == SelectSeq(arg.raw.l, IsNonNullObject)

\* a record with a plain id and a start date a Date can hold
WellFormedEvent(record) ==
    /\ record.t = "rec"
    /\ Get(record, T_id).t = "str" /\ Get(record, T_id).s # <<>>
    /\ Get(record, T_startDate) \in {Early, Late}

(* C3: every mapper returns a sequence, without raising, for any input,    *)
(* and the well-formed event records of a batch are mapped whatever the    *)
(* other items of the batch are.                                           *)
C3_MappersTotal ==
    op \in MapperOperations
    => /\ res.kind = "ok"
       /\ (op = "mapEventRecords" /\ IsArray(arg.raw))
            => \A i \in 1..Len(arg.raw.l) :
                   WellFormedEvent(arg.raw.l[i])
                   => \E k \in 1..Len(res.out) :
                          res.out[k].id = Get(arg.raw.l[i], T_id).s

\* the events of the output that carry the id
EventsWithId(id) == {k \in 1..Len(res.out) : res.out[k].id = id}

\* the last record of the batch that carries the id
LastRecordWithId(id) ==
    BatchRecords[CHOOSE i \in 1..Len(BatchRecords) :
                    /\ recordId(BatchRecords[i]) = id
                    /\ \A j \in (i + 1)..Len(BatchRecords) :
                           recordId(BatchRecords[j]) # id]

(* C6: the output of mapEventRecords holds, for each non-empty id of an    *)
(* input record, exactly one event with that id, and it is the event of    *)
(* the last record that carries the id.                                    *)
C6_OneEventPerInputId ==
    (op = "mapEventRecords" /\ res.kind = "ok" /\ IsArray(arg.raw))
    => \A i \in 1..Len(BatchRecords) :
           recordId(BatchRecords[i]) # <<>>
           => /\ Cardinality(EventsWithId(recordId(BatchRecords[i]))) = 1
              /\ \A k \in EventsWithId(recordId(BatchRecords[i])) :
                     res.out[k] = eventOf(LastRecordWithId(recordId(BatchRecords[i])))

\* the time a date text stands for: [known, t]
TimeOf(date) ==
    IF date.t = "str" /\ DateParse(date.s).b
    THEN [known |-> TRUE, t |-> DateParse(date.s).n]
    ELSE [known |-> FALSE, t |-> 0]

\* the effective time of an event: its start time, else its end time
EffectiveTime(event) ==
    IF TimeOf(event.startDate).known THEN TimeOf(event.startDate)
    ELSE TimeOf(event.endDate)

(* C7: the events mapEventRecords returns are in non-decreasing order of   *)
(* effective time, and the events that have no time follow all the events  *)
(* that have one.                                                          *)
C7_EventsInTimeOrder ==
    (op = "mapEventRecords" /\ res.kind = "ok")
    => \A i, j \in 1..Len(res.out) :
           (i < j /\ EffectiveTime(res.out[j]).known)
           => /\ EffectiveTime(res.out[i]).known
              /\ EffectiveTime(res.out[i]).t <= EffectiveTime(res.out[j]).t

\* a batch that arrived out of order: its first record has no time and is
\* returned last, behind an event timed by its end and a later one
C7_EventsReordered ==
    /\ op = "mapEventRecords"
    /\ res.kind = "ok"
    /\ Len(res.out) = 3
    /\ ~TimeOf(res.out[1].startDate).known
    /\ EffectiveTime(res.out[1]).known
    /\ EffectiveTime(res.out[1]).t < EffectiveTime(res.out[2]).t
    /\ ~EffectiveTime(res.out[3]).known
    /\ arg.raw.l[1].t = "rec"
    /\ res.out[3] = eventOf(arg.raw.l[1])

RECURSIVE Ascending(_)
Ascending(S) ==
    IF S = {} THEN <<>>
    ELSE <<CHOOSE m \in S : \A n \in S : m <= n>>
         \o Ascending(S \ {CHOOSE m \in S : \A n \in S : m <= n})

\* The events in the order they have before the sort: one event per id, at
\* the place of the first record with the id and built from the last one,
\* then the events of the id-less records as they come
EventsBeforeSort ==
    LET firstOfId == {i \in 1..Len(BatchRecords) :
                         /\ recordId(BatchRecords[i]) # <<>>
                         /\ \A j \in 1..(i - 1) :
                                recordId(BatchRecords[j]) # recordId(BatchRecords[i])}
        withoutId == {i \in 1..Len(BatchRecords) : recordId(BatchRecords[i]) = <<>>}
        a == Ascending(firstOfId)
        b == Ascending(withoutId)
    IN  [k \in 1..Len(a) |-> eventOf(LastRecordWithId(recordId(BatchRecords[a[k]])))]
        \o [k \in 1..Len(b) |-> eventOf(BatchRecords[b[k]])]

\* the elements of a sequence of events that have the effective time
EventsAt(events, time) ==
    LET At(event) == EffectiveTime(event) = time
    IN  SelectSeq(events, At)

C9_NotesNewestFirst ==
    op = "mapNoteRecords"
    => \A i, j \in 1..Len(res.out) :
           (i < j /\ ~noteTime(res.out[i]).nan /\ ~noteTime(res.out[j]).nan)
           => noteTime(res.out[i]).t >= noteTime(res.out[j]).t

\* out is the elements of mapped at the indices kept, in their order
FilteredInOrder(out, mapped, kept) ==
    /\ Len(out) = Cardinality(kept)
    /\ \A i \in kept : out[Cardinality({j \in kept : j <= i})] = mapped[i]

BlankEmail(email) == email.subject = <<>> /\ email.sender = <<>>
BlankReminder(reminder) == reminder.id = <<>> /\ reminder.name = <<>>

\* the entities of the records of the batch, before any is left out
BatchEmails ==
    [i \in 1..Len(BatchRecords) |->
        emailOf(BatchRecords[i], FallbackMailbox(arg.text), arg.now)]
BatchReminders ==
    [i \in 1..Len(BatchRecords) |-> reminderOf(BatchRecords[i], arg.text)]

(* C10: mapEmailRecords leaves out exactly the records whose subject and   *)
(* sender are both empty and returns the others in input order;            *)
(* mapReminderRecords does the same with id and name.                      *)
C10_BlankRecordsDropped ==
    /\ (op = "mapEmailRecords" /\ IsArray(arg.raw))
         => FilteredInOrder(res.out, BatchEmails,
                {i \in 1..Len(BatchEmails) : ~BlankEmail(BatchEmails[i])})
    /\ (op = "mapReminderRecords" /\ IsArray(arg.raw))
         => FilteredInOrder(res.out, BatchReminders,
                {i \in 1..Len(BatchReminders) : ~BlankReminder(BatchReminders[i])})

\* of three email records the middle one, with empty subject and sender,
\* was left out and the two around it returned in order
C10_MiddleRecordDropped ==
    /\ op = "mapEmailRecords"
    /\ IsArray(arg.raw)
    /\ Len(arg.raw.l) = 3
    /\ Get(arg.raw.l[2], T_subject) = Str(<<>>)
    /\ Get(arg.raw.l[2], T_sender) = Str(<<>>)
    /\ Len(res.out) = 2
    /\ res.out[1].sender # res.out[2].sender
    /\ res.out[1].sender = Get(arg.raw.l[1], T_sender).s

\* the default the documentation gives for the subject of an email
T_DocNoSubject == <<"(">> \o T_NoSubject \o <<")">>

\* the field is absent from the record, or null
Absent(record, key) == IsNullish(Get(record, key))

\* the records of an event batch that are not replaced by a later record
\* with the same id
SurvivingEventRecords ==
    {i \in 1..Len(BatchRecords) :
        \/ recordId(BatchRecords[i]) = <<>>
        \/ \A j \in (i + 1)..Len(BatchRecords) :
               recordId(BatchRecords[j]) # recordId(BatchRecords[i])}

(* C11: a field that is absent or null in a record comes out with its      *)
(* documented default: as many returned entities carry the default as      *)
(* records of the batch lack the field (or hold the default text itself).  *)
(* Subject "(No subject)", sender "Unknown sender", note name "Untitled    *)
(* Note", event title "Untitled Event", calendar "Unknown Calendar",       *)
(* reminder name "Untitled Reminder", list name "Reminders" when the call  *)
(* supplies none.                                                          *)
C11_DocumentedDefaults ==
    /\ (op = "mapEmailRecords" /\ IsArray(arg.raw))
         => /\ Cardinality({k \in 1..Len(res.out) : res.out[k].subject = T_DocNoSubject})
                 = Cardinality({i \in 1..Len(BatchRecords) :
                       \/ Absent(BatchRecords[i], T_subject)
                       \/ Get(BatchRecords[i], T_subject) = Str(T_DocNoSubject)})
            /\ Cardinality({k \in 1..Len(res.out) : res.out[k].sender = T_UnknownSender})
                 = Cardinality({i \in 1..Len(BatchRecords) :
                       \/ Absent(BatchRecords[i], T_sender)
                       \/ Get(BatchRecords[i], T_sender) = Str(T_UnknownSender)})
    /\ (op = "mapNoteRecords" /\ IsArray(arg.raw))
         => Cardinality({k \in 1..Len(res.out) : res.out[k].name = T_UntitledNote})
              = Cardinality({i \in 1..Len(BatchRecords) :
                    \/ Absent(BatchRecords[i], T_name)
                    \/ Get(BatchRecords[i], T_name) = Str(T_UntitledNote)})
    /\ (op = "mapReminderRecords" /\ IsArray(arg.raw))
         => /\ Cardinality({k \in 1..Len(res.out) : res.out[k].name = T_UntitledReminder})
                 = Cardinality({i \in 1..Len(BatchRecords) :
                       \/ Absent(BatchRecords[i], T_name)
                       \/ Get(BatchRecords[i], T_name) = Str(T_UntitledReminder)})
            /\ (arg.text = <<>>
                /\ \A i \in 1..Len(BatchRecords) : Absent(BatchRecords[i], T_listName))
                 => \A k \in 1..Len(res.out) : res.out[k].listName = T_Reminders
    /\ (op = "mapEventRecords" /\ res.kind = "ok" /\ IsArray(arg.raw))
         => /\ Cardinality({k \in 1..Len(res.out) : res.out[k].title = T_UntitledEvent})
                 = Cardinality({i \in SurvivingEventRecords :
                       \/ Absent(BatchRecords[i], T_title)
                       \/ Get(BatchRecords[i], T_title) = Str(T_UntitledEvent)})
            /\ \A k \in 1..Len(res.out) : res.out[k].calendarName = T_UnknownCalendar

\* C11 apart from the subject of an email: the defaults the code shares
\* with the documentation
C11_DefaultsOtherThanSubject ==
    /\ (op = "mapEmailRecords" /\ IsArray(arg.raw))
         => Cardinality({k \in 1..Len(res.out) : res.out[k].sender = T_UnknownSender})
              = Cardinality({i \in 1..Len(BatchRecords) :
                    \/ Absent(BatchRecords[i], T_sender)
                    \/ Get(BatchRecords[i], T_sender) = Str(T_UnknownSender)})
    /\ (op = "mapNoteRecords" /\ IsArray(arg.raw))
         => Cardinality({k \in 1..Len(res.out) : res.out[k].name = T_UntitledNote})
              = Cardinality({i \in 1..Len(BatchRecords) :
                    \/ Absent(BatchRecords[i], T_name)
                    \/ Get(BatchRecords[i], T_name) = Str(T_UntitledNote)})
    /\ (op = "mapReminderRecords" /\ IsArray(arg.raw))
         => /\ Cardinality({k \in 1..Len(res.out) : res.out[k].name = T_UntitledReminder})
                 = Cardinality({i \in 1..Len(BatchRecords) :
                       \/ Absent(BatchRecords[i], T_name)
                       \/ Get(BatchRecords[i], T_name) = Str(T_UntitledReminder)})
            /\ (arg.text = <<>>
                /\ \A i \in 1..Len(BatchRecords) : Absent(BatchRecords[i], T_listName))
                 => \A k \in 1..Len(res.out) : res.out[k].listName = T_Reminders
    /\ (op = "mapEventRecords" /\ res.kind = "ok" /\ IsArray(arg.raw))
         => /\ Cardinality({k \in 1..Len(res.out) : res.out[k].title = T_UntitledEvent})
                 = Cardinality({i \in SurvivingEventRecords :
                       \/ Absent(BatchRecords[i], T_title)
                       \/ Get(BatchRecords[i], T_title) = Str(T_UntitledEvent)})
            /\ \A k \in 1..Len(res.out) : res.out[k].calendarName = T_UnknownCalendar

-----------------------------------------------------------------------------
(* The coercion and date helpers on their own, given any value.            *)

UpperChar(c) ==
    IF \E i \in 1..26 : LowerLetters[i] = c
    THEN UpperLetters[CHOOSE i \in 1..26 : LowerLetters[i] = c]
    ELSE c

\* a lower-case word in every mix of letter cases
CaseVariants(word) ==
    {[i \in 1..Len(word) |-> IF i \in U THEN UpperChar(word[i]) ELSE word[i]] :
        U \in SUBSET (1..Len(word))}

\* the values that are not strings: nothing, booleans, numbers in and out
\* of the range of a Date, lists and records
OtherValues ==
    {Undef, Null, Bool(TRUE), Bool(FALSE),
     Num(0), Num(1), Num(0 - 1), Dec(15, 1), OutOfRange, NaN, Inf(1), Inf(0 - 1),
     List(<<>>), List(<<Str(<<"a">>), Str(<<"b">>)>>),
     List(<<Num(1), Null, List(<<Str(<<"a">>)>>)>>),
     Rec(<<>>), Rec(<<KV(T_id, Str(<<"a">>))>>)}

BooleanTexts ==
    UNION {CaseVariants(w) : w \in {T_true, T_yes, T_false, T_no}}
    \cup {<<>>, <<"1">>, <<"0">>, <<"o", "n">>, <<"t">>}

EpochTexts ==
    {<<>>, <<" ">>, <<"x">>, <<"1">>, <<" ", "1", " ">>, <<"-", "1">>,
     <<"1", ".", "5">>, NatToText(MaxSec + 1), T_Infinity,
     <<"-">> \o T_Infinity, T_NaN}

\* texts a date may be read from: the ISO form, and texts without a digit
DateTexts ==
    {ToISOString(s * 1000) : s \in 0..MaxSec}
    \cup {ToISOString(0 - 1000), <<>>, <<" ">>, <<"x">>, <<"n", "o", "w">>, <<"Z">>}

\* values whose text form holds no digit
DigitFreeValues ==
    {Undef, Null, Bool(TRUE), Bool(FALSE), NaN, Inf(1),
     List(<<>>), List(<<Str(<<"a">>), Str(<<"b">>)>>), Rec(<<>>)}

CoerceInputs == OtherValues \cup {Str(t) : t \in BooleanTexts \cup EpochTexts}
DateInputs == DigitFreeValues \cup {Str(t) : t \in DateTexts}
Fallbacks == {<<>>, <<"f">>}

\* the inputs of a helper: the value, a text fallback, a boolean fallback
HelperArg(value, text, flag, now) ==
    Arg(TRUE, flag, Undef, text, <<0, 0>>, now, value)

CoerceString ==
    /\ op = "none"
    /\ \E value \in CoerceInputs, fallback \in Fallbacks :
        Call("coerceString", HelperArg(value, fallback, FALSE, 0),
             {Returned(<<coerceString(value, fallback)>>, value, <<"coerce">>)})

CoerceBooleanNotes ==
    /\ op = "none"
    /\ \E value \in CoerceInputs, fallback \in BOOLEAN :
        Call("coerceBooleanNotes", HelperArg(value, <<>>, fallback, 0),
             {Returned(<<coerceBooleanNotes(value, fallback)>>, value, <<"coerce">>)})

CoerceBooleanMail ==
    /\ op = "none"
    /\ \E value \in CoerceInputs, fallback \in BOOLEAN :
        Call("coerceBooleanMail", HelperArg(value, <<>>, fallback, 0),
             {Returned(<<coerceBooleanMail(value, fallback)>>, value, <<"coerce">>)})

ToDateFromUnix ==
    /\ op = "none"
    /\ \E value \in CoerceInputs :
        Call("toDateFromUnix", HelperArg(value, <<>>, FALSE, 0),
             {Returned(<<toDateFromUnix(value)>>, value, <<"date">>)})

ToIsoFromUnix ==
    /\ op = "none"
    /\ \E value \in CoerceInputs :
        Call("toIsoFromUnix", HelperArg(value, <<>>, FALSE, 0),
             {IF IsThrown(iso) THEN Failed("RangeError", <<>>, <<"date">>)
              ELSE Returned(<<iso>>, value, <<"date">>) :
                 iso \in {toIsoFromUnix(value)}})

ToIsoDate ==
    /\ op = "none"
    /\ \E value \in DateInputs, now \in Clock :
        Call("toIsoDate", HelperArg(value, <<>>, FALSE, now),
             {Returned(<<Str(toIsoDate(value, now))>>, value, <<"date">>)})

ToIsoString ==
    /\ op = "none"
    /\ \E value \in DateInputs :
        Call("toIsoString", HelperArg(value, <<>>, FALSE, 0),
             {Returned(<<toIsoString(value)>>, value, <<"date">>)})

NextCoerce ==
    \/ Return
    \/ CoerceString
    \/ CoerceBooleanNotes
    \/ CoerceBooleanMail
    \/ ToDateFromUnix
    \/ ToIsoFromUnix
    \/ ToIsoDate
    \/ ToIsoString

\* the helpers, called one after another with any value
SpecCoerce == Init /\ [][NextCoerce]_vars

-----------------------------------------------------------------------------
(* Properties of the helpers.                                              *)

IsContainer(v) == v.t \in {"list", "rec"}

\* the text form of a scalar: the string itself, the decimal form of a
\* number, true or false
ScalarText(v) ==
    CASE v.t = "str" -> v.s
      [] v.t = "bool" -> (IF v.b THEN T_true ELSE T_false)
      [] v.t = "num" -> FiniteToText(v.n, v.e)
      [] v.t = "nan" -> T_NaN
      [] OTHER -> (IF v.n < 0 THEN <<"-">> ELSE <<>>) \o T_Infinity

(* C12: coerceString(v, fallback) is the fallback for null and absent      *)
(* values, the text form for a string, number or boolean, and the fallback *)
(* for a list or record, never a stringification of the container.         *)
C12_CoerceStringContainersFallBack ==
    op = "coerceString"
    => res.out[1] = (IF IsNullish(arg.raw) \/ IsContainer(arg.raw) THEN arg.text
                     ELSE ScalarText(arg.raw))

\* the documented coerceBoolean
DocumentedBoolean(v, fallback) ==
    CASE v.t = "bool" -> v.b
      [] v.t = "str" /\ ToLowerCase(v.s) \in {T_true, T_yes} -> TRUE
      [] v.t = "str" /\ ToLowerCase(v.s) \in {T_false, T_no} -> FALSE
      [] v.t = "num" -> v.n # 0
      [] v.t \in {"nan", "inf"} -> TRUE
      [] OTHER -> fallback

(* C13: every copy of coerceBoolean computes the documented function: a    *)
(* boolean as is, true/yes and false/no in any letter case, a number by    *)
(* whether it is zero, and the fallback for everything else, the strings   *)
(* "1" and "0" included.                                                   *)
C13_CoerceBooleanCopiesAgree ==
    op \in {"coerceBooleanNotes", "coerceBooleanMail"}
    => res.out[1] = DocumentedBoolean(arg.raw, arg.ok)

(* C14: toDateFromUnix and toIsoFromUnix never raise, and return a valid   *)
(* timestamp or the unavailable marker (undefined, null) for every input.  *)
C14_EpochConversionTotal ==
    /\ op = "toDateFromUnix"
         => /\ res.kind = "ok"
            /\ (res.out[1] = Undef \/ (res.out[1].t = "date" /\ res.out[1].b))
    /\ op = "toIsoFromUnix"
         => /\ res.kind = "ok"
            /\ (res.out[1] = Null
                \/ (res.out[1].t = "str" /\ DateParse(res.out[1].s).b))

(* C15: given a text, toIsoDate and toIsoString return the timestamp of    *)
(* the date it parses as, and the text itself, unchanged, when it does not *)
(* parse.                                                                  *)
C15_UnparsedTextReturned ==
    (op \in {"toIsoDate", "toIsoString"} /\ arg.raw.t = "str")
    => res.out[1] = (IF DateParse(arg.raw.s).b
                     THEN Str(ToISOString(DateParse(arg.raw.s).n))
                     ELSE arg.raw)

-----------------------------------------------------------------------------
(* The parser on string literals, tokens and record bodies.                *)

\* what a string literal is made of: the quote, the backslash, the letters
\* of the named escapes and a plain letter
LiteralAlphabet == {"\"", "\\", "n", "r", "t", "a"}

\* an opening quote and any short text behind it
LiteralTexts == {<<"\"">> \o t : t \in SeqsUpTo(LiteralAlphabet, MaxText)}

\* the parser on a text that starts with a quote
ParseString ==
    /\ op = "none"
    /\ \E text \in LiteralTexts :
        Call("parseString", MapperArg(<<>>, 0, Str(text)),
             {IF parsed.ok THEN Returned(<<parsed.val>>, Str(text), <<"parse">>)
              ELSE Failed(parsed.err, <<>>, <<"parse">>) :
                 parsed \in {parse(text)}})

\* what a number token is made of, and an exponent letter
NumberAlphabet == {"-", "0", "1", ".", "e"}
NumberTokens == SeqsUpTo(NumberAlphabet, MaxText) \ {<<>>}

\* unquoted words: the literals, words that begin with one, and others
WordTokens ==
    {T_true, T_false, T_missing_value,
     T_true \o <<"i", "s", "h">>, T_false \o <<"y">>, <<"t", "r", "u">>,
     <<"T", "r", "u", "e">>, <<"a">>, <<"a", "b">>, <<"a", "\"", "b">>,
     <<"a", "{", "b">>, <<"-", "a">>, <<"1", "a">>}

\* a token on its own, between blanks, alone in a list, and first in a list
TokenContexts == {"bare", "padded", "list", "first"}
TokenText(token, context) ==
    CASE context = "bare" -> token
      [] context = "padded" -> <<" ">> \o token \o <<" ">>
      [] context = "list" -> <<"{">> \o token \o <<"}">>
      [] OTHER -> <<"{">> \o token \o <<",", " ", "z", "}">>

\* the parser on a text that holds an unquoted token; arg.text is the token
ParseToken ==
    /\ op = "none"
    /\ \E token \in NumberTokens \cup WordTokens, context \in TokenContexts :
        Call("parseValue", MapperArg(token, 0, Str(TokenText(token, context))),
             {IF parsed.ok
              THEN Returned(<<parsed.val>>, Str(TokenText(token, context)),
                            <<"parse", context>>)
              ELSE Failed(parsed.err, <<>>, <<"parse", context>>) :
                 parsed \in {parse(TokenText(token, context))}})

\* one key : value pair of a record body as written: the key, the blanks
\* behind it, what stands for the colon, and the value
Entry(key, gap, sep, value) == [key |-> key, gap |-> gap, sep |-> sep, value |-> value]
EntryText(e) == e.key \o e.gap \o e.sep \o e.value

RECURSIVE EntriesText(_, _)
EntriesText(entries, i) ==
    IF i > Len(entries) THEN <<>>
    ELSE (IF i > 1 THEN <<",">> ELSE <<>>) \o EntryText(entries[i])
         \o EntriesText(entries, i + 1)

RecordText(entries) == <<"{">> \o EntriesText(entries, 1) \o <<"}">>

\* keys of the grammar and keys outside it, with and without a colon
LooseEntries ==
    {Entry(key, gap, sep, <<"1">>) :
        key \in {<<"a">>, <<"1">>, <<"_", "a">>, <<"\"", "a", " ", "b", "\"">>,
                 <<"\"", "\"">>, <<"a", "-", "b">>, <<>>, <<"a", " ", "b">>},
        gap \in {<<>>, <<" ">>},
        sep \in {<<":">>, <<>>, <<"=">>}}

\* pairs the grammar allows, under letter keys, digit keys and __proto__
PlainEntries ==
    {Entry(key, <<>>, <<":">>, value) :
        key \in {<<"a">>, <<"b">>, <<"1">>, <<"2">>, ProtoKey},
        value \in {<<"1">>, <<"2">>}}

RecordBodies ==
    {<<e>> : e \in LooseEntries}
    \cup {<<e, f>> : e \in LooseEntries, f \in LooseEntries}
    \cup (SeqsUpTo(PlainEntries, MaxBatch) \ {<<>>})

\* the pairs of a body, as an input of the call
Entries(body) == Mk("entries", FALSE, 0, 0, <<>>, body, <<>>)

\* the parser on a braced body of key : value pairs; arg.limit holds the pairs
ParseRecord ==
    /\ op = "none"
    /\ \E body \in RecordBodies :
        Call("parseRecord",
             Arg(TRUE, TRUE, Entries(body), <<>>, <<0, 0>>, 0, Str(RecordText(body))),
             {IF parsed.ok
              THEN Returned(<<parsed.val>>, Str(RecordText(body)),
                            <<"parse", topBranch(RecordText(body))>>)
              ELSE Failed(parsed.err, <<>>, <<"parse", topBranch(RecordText(body))>>) :
                 parsed \in {parse(RecordText(body))}})

NextSyntax ==
    \/ Return
    \/ ParseString
    \/ ParseToken
    \/ ParseRecord

\* the parser, called on literals, tokens and record bodies
SpecSyntax == Init /\ [][NextSyntax]_vars

-----------------------------------------------------------------------------
(* Properties of the parser on literals, tokens and record bodies.         *)

\* the position in s of the quote that closes a literal whose content starts
\* at i: the first quote not behind a backslash, 0 when there is none
RECURSIVE ClosingQuote(_, _)
ClosingQuote(s, i) ==
    IF i > Len(s) THEN 0
    ELSE IF s[i] = "\"" THEN i
    ELSE IF s[i] = "\\" THEN ClosingQuote(s, i + 2)
    ELSE ClosingQuote(s, i + 1)

\* the character a backslash and c stand for
EscapeOf(c) ==
    CASE c = "n" -> "\n"
      [] c = "r" -> "\r"
      [] c = "t" -> "\t"
      [] OTHER -> c

\* the text a literal's content stands for
RECURSIVE Decoded(_)
Decoded(s) ==
    IF s = <<>> THEN <<>>
    ELSE IF Head(s) = "\\" THEN <<EscapeOf(s[2])>> \o Decoded(SubSeq(s, 3, Len(s)))
    ELSE <<Head(s)>> \o Decoded(Tail(s))

\* the text behind the opening quote of the literal parsed
LiteralRest == Tail(arg.raw.s)

(* C16: a double-quoted literal is decoded escape by escape (backslash and *)
(* quote, backslash, n, r, t give quote, backslash, newline, carriage      *)
(* return, tab; backslash and any other character gives that character;    *)
(* other characters are copied), and a literal with no closing quote, one  *)
(* that ends in a lone backslash included, is an error.                    *)
C16_StringLiteralDecoded ==
    op = "parseString"
    => IF ClosingQuote(LiteralRest, 1) = 0 THEN res.kind = "error"
       ELSE IF ClosingQuote(LiteralRest, 1) = Len(LiteralRest)
       THEN /\ res.kind = "ok"
            /\ res.out[1] = Str(Decoded(SubSeq(LiteralRest, 1, Len(LiteralRest) - 1)))
       ELSE res.kind = "error"

\* the literal "\n\"" was decoded to a newline and a quote
C16_EscapesDecoded ==
    /\ op = "parseString"
    /\ arg.raw.s = <<"\"", "\\", "n", "\\", "\"", "\"">>
    /\ res.kind = "ok"
    /\ res.out[1] = Str(<<"\n", "\"">>)

\* the value the parser gave for the token: the value itself, or the first
\* element of the list the token stands in
TokenValue ==
    IF res.out[1].t = "list" /\ res.out[1].l # <<>> THEN res.out[1].l[1]
    ELSE res.out[1]

\* an optional "-", at least one digit, and optionally "." and digits
NumberShaped(token) ==
    LET u == IF token # <<>> /\ Head(token) = "-" THEN Tail(token) ELSE token
        d == DotAt(u, 1)
        whole == IF d = 0 THEN u ELSE SubSeq(u, 1, d - 1)
        fraction == IF d = 0 THEN <<>> ELSE SubSeq(u, d + 1, Len(u))
    IN  whole # <<>> /\ AllDigits(whole) /\ AllDigits(fraction)

\* the decimal number a number-shaped token writes
DecimalOf(token) ==
    LET negative == Head(token) = "-"
        u == IF negative THEN Tail(token) ELSE token
        d == DotAt(u, 1)
        whole == IF d = 0 THEN u ELSE SubSeq(u, 1, d - 1)
        fraction == IF d = 0 THEN <<>> ELSE SubSeq(u, d + 1, Len(u))
        scaled == DigitsToNat(whole) * Pow10(Len(fraction)) + DigitsToNat(fraction)
    IN  Dec(IF negative THEN 0 - scaled ELSE scaled, Len(fraction))

(* C17: the parser gives a number only for a token made of an optional     *)
(* "-", at least one digit and optionally "." and digits, and the number   *)
(* is the decimal the token writes; an exponent is never read as part of   *)
(* the number; a "-" with no digit behind it is an error, not a value.     *)
C17_NumberTokens ==
    op = "parseValue"
    => /\ (res.kind = "ok" /\ IsNumber(TokenValue))
            => /\ NumberShaped(arg.text)
               /\ TokenValue = DecimalOf(arg.text)
       /\ (Head(arg.text) = "-" /\ (Len(arg.text) = 1 \/ ~isDigit(arg.text[2])))
            => res.kind = "error"

\* a token the claim on barewords speaks of: not one of the literals, not
\* starting like a number, and without a character that ends a bareword
PlainWord(token) ==
    /\ token \notin {T_true, T_false, T_missing_value}
    /\ Head(token) # "-" /\ ~isDigit(Head(token))
    /\ \A i \in 1..Len(token) : token[i] \notin {",", "}"} \cup WhitespaceSet

(* C18: an unquoted token that is not true, false or missing value and     *)
(* does not start with "-" or a digit comes back as the string of its      *)
(* whole run of characters, also when it begins with true or false.        *)
C18_BarewordWholeRun ==
    (op = "parseValue" /\ PlainWord(arg.text))
    => /\ res.kind = "ok"
       /\ TokenValue = Str(arg.text)

\* a key of the grammar as written: a quoted string, or a non-empty run of
\* letters, digits and underscores
KeyOfGrammar(key) ==
    \/ /\ Len(key) >= 2
       /\ key[1] = "\""
       /\ ClosingQuote(Tail(key), 1) = Len(key) - 1
    \/ /\ key # <<>>
       /\ \A i \in 1..Len(key) : isKeyChar(key[i])

\* the key a key of the grammar spells
KeySpelled(key) ==
    IF key[1] = "\"" THEN Decoded(SubSeq(key, 2, Len(key) - 1)) ELSE key

\* a pair whose key is of the grammar and is followed, after blanks at
\* most, by a colon
PairOfGrammar(e) == KeyOfGrammar(e.key) /\ e.sep = <<":">>

(* C19: in a record body each key is a quoted string or a non-empty run of *)
(* letters, digits and underscores, and the parse fails whenever a key is  *)
(* not followed by ":" (blanks may come between); on failure no record is  *)
(* returned, and a record returned holds only keys the body spells.        *)
C19_KeysNeedColon ==
    (op = "parseRecord" /\ steps = <<"parse", "record">>)
    => IF \A i \in 1..Len(arg.limit.l) : PairOfGrammar(arg.limit.l[i])
       THEN /\ res.kind = "ok"
            /\ res.out[1].t = "rec"
            /\ {res.out[1].r[k].k : k \in 1..Len(res.out[1].r)}
                 \subseteq {KeySpelled(arg.limit.l[i].key) : i \in 1..Len(arg.limit.l)}
       ELSE /\ res.kind = "error"
            /\ res.out = <<>>

\* a record body whose second key is followed by "=" was rejected
C19_MissingColonRejected ==
    /\ op = "parseRecord"
    /\ steps = <<"parse", "record">>
    /\ Len(arg.limit.l) = 2
    /\ PairOfGrammar(arg.limit.l[1])
    /\ KeyOfGrammar(arg.limit.l[2].key)
    /\ arg.limit.l[2].sep = <<"=">>
    /\ res.kind = "error"

\* the pairs of the body at which a key appears for the first time
FirstAppearances(body) ==
    {i \in 1..Len(body) : \A j \in 1..(i - 1) : body[j].key # body[i].key}

\* the value written last under the key
LastValueOf(body, key) ==
    body[CHOOSE i \in 1..Len(body) :
            /\ body[i].key = key
            /\ \A j \in (i + 1)..Len(body) : body[j].key # key].value

\* the record a body of plain pairs stands for: each key once, in the order
\* of first appearance, with the value written last under it
RecordOf(body) ==
    LET first == Ascending(FirstAppearances(body))
    IN  Rec([k \in 1..Len(first) |->
                KV(body[first[k]].key,
                   DecimalOf(LastValueOf(body, body[first[k]].key)))])

(* C20: a parsed record holds each key once with the value of the last     *)
(* pair written under it, and enumerates its keys in the order of their    *)
(* first appearance, for every key of the grammar, keys of digits          *)
(* included.                                                               *)
C20_KeysInFirstAppearanceOrder ==
    (op = "parseRecord" /\ \A i \in 1..Len(arg.limit.l) : arg.limit.l[i] \in PlainEntries)
    => /\ res.kind = "ok"
       /\ res.out[1] = RecordOf(arg.limit.l)

\* C20 for records whose keys are neither digits nor __proto__
C20_LetterKeysInFirstAppearanceOrder ==
    (/\ op = "parseRecord"
     /\ \A i \in 1..Len(arg.limit.l) :
            /\ arg.limit.l[i] \in PlainEntries
            /\ arg.limit.l[i].key \in {<<"a">>, <<"b">>})
    => /\ res.kind = "ok"
       /\ res.out[1] = RecordOf(arg.limit.l)

-----------------------------------------------------------------------------
(* The bridge result.  parseAppleScriptResult is applied to every kind of  *)
(* value a bridge can resolve to: nothing, a scalar, a list, a record, a   *)
(* text.                                                                   *)

\* the texts of a bridge result: empty and blank texts, the source form of
\* a result with and without the "=> " prefix, a cut-off text
ResultTexts ==
    {<<>>, <<" ">>, <<"\n", "\t">>, <<"{">>, <<"1">>, <<"a">>, T_true}
    \cup {sourceForm(v) : v \in StatusEnvelopes}
    \cup {<<"=", ">", " ">> \o sourceForm(v) : v \in SampleRecords}

ResultInputs == OtherValues \cup StatusEnvelopes \cup {Str(t) : t \in ResultTexts}

\* the steps of parseAppleScriptResult(raw): "parse" when it constructs the
\* parser and calls parse()
resultStages(raw) ==
    IF ~IsNullish(raw) /\ ~IsObjectType(raw) /\ IsString(raw) /\ Trim(raw.s) # <<>>
    THEN <<"result", "parse">>
    ELSE <<"result">>

ParseAppleScriptResult ==
    /\ op = "none"
    /\ \E raw \in ResultInputs :
        Call("parseAppleScriptResult", MapperArg(<<>>, 0, raw),
             {IF parsed.ok
              THEN Returned(<<parsed.val>>, raw, resultStages(raw))
              ELSE Failed(parsed.err, <<>>, resultStages(raw)) :
                 parsed \in {parseAppleScriptResult(raw)}})

-----------------------------------------------------------------------------
(* The written form of a value and its parse.  A value is written as a     *)
(* text of the grammar and the parser is run on the text.                  *)

\* a string's content written with the grammar's escapes
RECURSIVE escapeContent(_)
escapeContent(text) ==
    IF text = <<>> THEN <<>>
    ELSE (CASE Head(text) = "\"" -> <<"\\", "\"">>
            [] Head(text) = "\\" -> <<"\\", "\\">>
            [] Head(text) = "\n" -> <<"\\", "n">>
            [] Head(text) = "\r" -> <<"\\", "r">>
            [] Head(text) = "\t" -> <<"\\", "t">>
            [] OTHER -> <<Head(text)>>)
         \o escapeContent(Tail(text))

quoted(text) == <<"\"">> \o escapeContent(text) \o <<"\"">>

\* a key as the grammar writes it: a run of key characters bare, any other
\* key as a quoted string
writtenKey(key) ==
    IF key # <<>> /\ \A i \in 1..Len(key) : isKeyChar(key[i]) THEN key ELSE quoted(key)

RECURSIVE writtenForm(_)
RECURSIVE writtenItems(_, _)
RECURSIVE writtenPairs(_, _)
writtenItems(l, i) ==
    IF i > Len(l) THEN <<>>
    ELSE (IF i > 1 THEN <<",", " ">> ELSE <<>>) \o writtenForm(l[i])
         \o writtenItems(l, i + 1)

writtenPairs(r, i) ==
    IF i > Len(r) THEN <<>>
    ELSE (IF i > 1 THEN <<",", " ">> ELSE <<>>) \o writtenKey(r[i].k) \o <<":">>
         \o writtenForm(r[i].v) \o writtenPairs(r, i + 1)

\* strings quoted and escaped, records as key:value pairs, lists
\* comma-separated, both in braces
writtenForm(v) ==
    CASE v.t = "str" -> quoted(v.s)
      [] v.t = "num" -> FiniteToText(v.n, v.e)
      [] v.t = "bool" -> IF v.b THEN T_true ELSE T_false
      [] v.t = "list" -> <<"{">> \o writtenItems(v.l, 1) \o <<"}">>
      [] v.t = "rec" -> <<"{">> \o writtenPairs(v.r, 1) \o <<"}">>
      [] OTHER -> T_missing_value

\* scalars of every kind; the strings hold each character the grammar gives
\* a meaning to, and the spellings of the literals
GrammarStrings ==
    {<<c>> : c \in {"\"", "\\", "\n", "\r", "\t", ":", ",", "{", "}", " ", "a", "1", "-"}}
    \cup {<<>>, T_true, T_missing_value, <<"a", "\"", ":", "b">>, <<"\\", "n">>}
GrammarScalars ==
    {Null, Bool(TRUE), Bool(FALSE), Num(0), Num(1), Num(0 - 1), Dec(15, 1),
     Dec(0 - 5, 2)}
    \cup {Str(s) : s \in GrammarStrings}
CoreScalars == {Null, Bool(TRUE), Num(0 - 1), Dec(15, 1), Str(<<"a">>), Str(<<"\"">>)}
GrammarKeys == {<<"a">>, <<"b">>, <<"1">>, <<"2">>, <<"a", " ", "b">>, <<>>, ProtoKey}

\* lists and records over the scalars, and one level of nesting
FlatLists ==
    {List(l) : l \in SeqsUpTo(CoreScalars, MaxBatch)}
    \cup {List(<<v>>) : v \in GrammarScalars}
FlatRecords ==
    {Rec(<<KV(k, v)>>) : k \in GrammarKeys, v \in GrammarScalars}
    \cup {Rec(<<KV(k1, v), KV(k2, Num(1))>>) :
             k1 \in GrammarKeys, k2 \in GrammarKeys, v \in CoreScalars}
NestedMembers ==
    {List(<<>>), List(<<Num(1), Str(<<"a">>)>>), Rec(<<KV(<<"a">>, Num(1))>>),
     Rec(<<KV(<<"1">>, Str(<<":">>))>>), Str(<<"a">>)}
NestedValues ==
    {List(l) : l \in SeqsUpTo(NestedMembers, 2)}
    \cup {Rec(<<KV(k, v)>>) : k \in GrammarKeys, v \in NestedMembers}
    \cup {Rec(<<KV(<<"b">>, v), KV(<<"a">>, w)>>) : v \in NestedMembers, w \in NestedMembers}

\* the texts of the grammar the values are produced from
GrammarTexts ==
    {writtenForm(v) : v \in GrammarScalars \cup FlatLists \cup FlatRecords \cup NestedValues}

\* parse, write, parse again: the first parse produces the value, the
\* outcome is the second parse of its written form
RoundTrip ==
    /\ op = "none"
    /\ \E text \in GrammarTexts :
        \E first \in {parse(text)} :
            /\ first.ok
            /\ Call("roundTrip", MapperArg(text, 0, first.val),
                    {IF again.ok
                     THEN Returned(<<again.val>>, Str(writtenForm(first.val)), <<"parse", "parse">>)
                     ELSE Failed(again.err, <<>>, <<"parse", "parse">>) :
                        again \in {parse(writtenForm(first.val))}})

NextResult ==
    \/ Return
    \/ ParseAppleScriptResult
    \/ RoundTrip

\* the result parser, called on one bridge result after another, and the
\* parser on one written value after another
SpecResult == Init /\ [][NextResult]_vars

-----------------------------------------------------------------------------
(* Properties of the bridge result.                                        *)

\* a text with nothing but white space in it
BlankText(v) == v.t = "str" /\ \A i \in 1..Len(v.s) : v.s[i] \in WhitespaceSet

(* C21: parseAppleScriptResult accepts every kind of bridge result.  A      *)
(* list or a record comes back identical and the parser is not run; null,  *)
(* an absent result and an empty or blank text give Null; any other        *)
(* already-structured scalar (a number, a boolean) is accepted as a value  *)
(* rather than rejected; only a text is handed to the parser.              *)
C21_EveryResultKindAccepted ==
    op = "parseAppleScriptResult"
    => CASE arg.raw.t \in {"list", "rec"} ->
                /\ res.kind = "ok"
                /\ res.out = <<arg.raw>>
                /\ ~StageRun("parse")
         [] arg.raw.t \in {"undef", "null"} \/ BlankText(arg.raw) ->
                /\ res.kind = "ok"
                /\ res.out = <<Null>>
                /\ ~StageRun("parse")
         [] arg.raw.t = "str" -> StageRun("parse")
         [] OTHER ->
                /\ res.kind = "ok"
                /\ ~StageRun("parse")

\* the part of C21 that does not concern scalars: lists, records, nothing,
\* blank texts and texts are treated as stated (holds)
C21_StructuredAndTextResults ==
    (op = "parseAppleScriptResult" /\ arg.raw.t \in {"list", "rec", "undef", "null", "str"})
    => C21_EveryResultKindAccepted

\* a value that holds a record without a pair
RECURSIVE HoldsEmptyRecord(_)
HoldsEmptyRecord(v) ==
    CASE v.t = "rec" -> v.r = <<>> \/ \E i \in 1..Len(v.r) : HoldsEmptyRecord(v.r[i].v)
      [] v.t = "list" -> \E i \in 1..Len(v.l) : HoldsEmptyRecord(v.l[i])
      [] OTHER -> FALSE

(* C23: for every value the parser produces from a text of the grammar     *)
(* (null, booleans, numbers, strings, lists, records, nested), writing the *)
(* value back as grammar text and parsing that text yields an equal value. *)
C23_RoundTrip ==
    op = "roundTrip"
    => /\ res.kind = "ok"
       /\ res.out = <<arg.raw>>

\* C23 for the values that hold no record without a pair (holds)
C23_RoundTripOfKeyedValues ==
    (op = "roundTrip" /\ ~HoldsEmptyRecord(arg.raw))
    => /\ res.kind = "ok"
       /\ res.out = <<arg.raw>>

-----------------------------------------------------------------------------
(* Content of every length.  The note and email mappers are applied to     *)
(* records whose content is shorter than, as long as and longer than the   *)
(* preview length of their module, and to content a script has cut.        *)

MAX_CONTENT_PREVIEW_NOTES == 200
MAX_CONTENT_PREVIEW_MAIL == 300

\* what a script appends to the content it cuts
Ellipsis == <<".", ".", ".">>

\* the cap in the script of the second mail module's getLatestMails
LatestMailsCut == 500

Filler(n) == [i \in 1..n |-> "x"]

\* contents the bridge result may carry for a module with the given preview
\* length: short, at the length, over it, cut by a script at the length,
\* cut at the second mail module's cap
Contents(limit) ==
    {Filler(0), Filler(1), Filler(limit), Filler(limit + 1),
     Filler(limit) \o Ellipsis, Filler(LatestMailsCut) \o Ellipsis}

LongNote(name, content) == Rec(<<KV(T_name, Str(name)), KV(T_content, Str(content))>>)
LongEmail(subject, content) ==
    Rec(<<KV(T_subject, Str(subject)), KV(T_content, Str(content))>>)

LongNoteBatches ==
    {List(<<LongNote(<<"a">>, c)>>) : c \in Contents(MAX_CONTENT_PREVIEW_NOTES)}
    \cup {List(<<LongNote(<<"a">>, c), LongNote(<<"b">>, d)>>) :
             c \in Contents(MAX_CONTENT_PREVIEW_NOTES),
             d \in Contents(MAX_CONTENT_PREVIEW_NOTES)}
LongEmailBatches ==
    {List(<<LongEmail(<<"s">>, c)>>) : c \in Contents(MAX_CONTENT_PREVIEW_MAIL)}
    \cup {List(<<LongEmail(<<"s">>, c), LongEmail(<<"t">>, d)>>) :
             c \in Contents(MAX_CONTENT_PREVIEW_MAIL),
             d \in Contents(MAX_CONTENT_PREVIEW_MAIL)}

MapLongNotes ==
    /\ op = "none"
    /\ \E raw \in LongNoteBatches :
        Call("mapNoteRecords", MapperArg(<<>>, 0, raw),
             {Returned(notes, raw, <<"map">>) : notes \in mapNoteRecords(raw)})

MapLongEmails ==
    /\ op = "none"
    /\ \E raw \in LongEmailBatches, account \in Accounts, now \in Clock :
        Call("mapEmailRecords", MapperArg(account, now, raw),
             {Returned(mapEmailRecords(raw, FallbackMailbox(account), now),
                       raw, <<"map">>)})

NextPreview ==
    \/ Return
    \/ MapLongNotes
    \/ MapLongEmails

\* the note and email mappers, called on one batch after another
SpecPreview == Init /\ [][NextPreview]_vars

-----------------------------------------------------------------------------
(* Properties of the content.                                              *)

\* content cut to the preview length with the ellipsis appended, or
\* unchanged at or under the length
Preview(content, limit) ==
    IF Len(content) > limit THEN SubSeq(content, 1, limit) \o Ellipsis ELSE content

PreviewLength ==
    IF op = "mapNoteRecords" THEN MAX_CONTENT_PREVIEW_NOTES ELSE MAX_CONTENT_PREVIEW_MAIL

\* the content the bridge result carries for the i-th record
CarriedContent(i) == Get(arg.raw.l[i], T_content).s

(* C22: in every entity the email and note mappers return, content longer  *)
(* than the preview length (300 for mail, 200 for notes) has been cut to   *)
(* exactly that length with an ellipsis appended, and content at or under  *)
(* the length is unchanged, whatever length the bridge result carries.     *)
C22_ContentCutToPreview ==
    op \in {"mapNoteRecords", "mapEmailRecords"}
    => /\ res.kind = "ok"
       /\ Len(res.out) = Len(arg.raw.l)
       /\ \A i \in 1..Len(res.out) :
            res.out[i].content = Preview(CarriedContent(i), PreviewLength)

\* the part of C22 on content at or under the preview length (holds)
C22_ShortContentUnchanged ==
    op \in {"mapNoteRecords", "mapEmailRecords"}
    => /\ res.kind = "ok"
       /\ Len(res.out) = Len(arg.raw.l)
       /\ \A i \in 1..Len(res.out) :
            Len(CarriedContent(i)) <= PreviewLength
            => res.out[i].content = CarriedContent(i)

-----------------------------------------------------------------------------
(* The create operations on every response.  The handlers type the bridge  *)
(* result unknown and test it for a record; here the bridge resolves to a  *)
(* status envelope, structured or in source form.                          *)

\* what an envelope can carry as the created item
CreatedValues ==
    SampleRecords \cup {List(<<r>>) : r \in SampleRecords} \cup {Null, List(<<>>)}

CreateEnvelopes ==
    StatusEnvelopes
    \cup {Rec(<<KV(T_status, Str(T_success)), KV(T_noteRecord, c), KV(T_eventRecord, d)>>) :
             c \in CreatedValues, d \in CreatedValues}

CreateResponses == CreateEnvelopes \cup {Str(sourceForm(v)) : v \in CreateEnvelopes}

CreateNoteOnResponse ==
    /\ op = "none"
    /\ \E raw \in CreateResponses :
        Call("createNote", Arg(TRUE, TRUE, Undef, <<>>, <<0, 0>>, 0, raw),
             createNoteRun(TRUE, TRUE, raw))

CreateEventOnResponse ==
    /\ op = "none"
    /\ \E raw \in CreateResponses :
        Call("createEvent", Arg(TRUE, TRUE, Undef, <<>>, <<0, 0>>, 0, raw),
             createEventRun(TRUE, TRUE, raw))

NextCreate ==
    \/ Return
    \/ CreateNoteOnResponse
    \/ CreateEventOnResponse

\* createNote and createEvent, called on one response after another
SpecCreate == Init /\ [][NextCreate]_vars

-----------------------------------------------------------------------------
(* Properties of the create operations.                                    *)

\* the response is a record with status "success" that carries a record
\* under the key
SuccessCarrying(key) ==
    /\ arg.raw.t = "rec"
    /\ Get(arg.raw, T_status) = Str(T_success)
    /\ Get(arg.raw, key).t = "rec"

(* C24: when createEvent receives a response that is a record with status  *)
(* "success" carrying a record-valued eventRecord, it returns success with *)
(* the event mapped from that eventRecord as its event (and that event's   *)
(* id as eventId), never undefined, as createNote returns the note mapped  *)
(* from noteRecord.                                                        *)
C24_CreatedEventReturned ==
    (op = "createEvent" /\ SuccessCarrying(T_eventRecord))
    => /\ res.kind = "ok"
       /\ res.out = <<eventOf(Get(arg.raw, T_eventRecord))>>

\* the createNote side of C24: the note mapped from a record-valued
\* noteRecord is returned (holds)
C24_CreatedNoteReturned ==
    (op = "createNote" /\ SuccessCarrying(T_noteRecord))
    => /\ res.kind = "ok"
       /\ res.out = <<noteOf(Get(arg.raw, T_noteRecord))>>

-----------------------------------------------------------------------------
(* The fetches on results of every size.  The bridge resolves to a list of *)
(* fewer records than the limit, as many, or more (a list or its source    *)
(* form), and the limit is absent, zero, negative, small or above the      *)
(* maximum.                                                                *)

\* the default of getLatestMails' limit parameter
LATEST_MAILS_DEFAULT == 5

\* the i-th record of a result, readable by every mapper
NumberedRecord(i) ==
    Rec(<<KV(T_id, Str(NatToText(i))), KV(T_name, Str(<<"n">>)),
          KV(T_subject, Str(<<"s">>))>>)

ResultOfSize(n) == List([i \in 1..n |-> NumberedRecord(i)])

ResultSizes == {0, 1, MaxBatch, MAX_EMAILS + 1, MAX_NOTES + 1}

SizedResults ==
    {ResultOfSize(n) : n \in ResultSizes}
    \cup {Str(sourceForm(ResultOfSize(n))) : n \in ResultSizes}

RequestedLimits ==
    {Undef, Num(0), Num(0 - 1), Num(1), Num(MaxBatch - 1), Num(MAX_EMAILS + 1),
     Num(MAX_NOTES + 1)}

LimitedFetchNotes ==
    /\ op = "none"
    /\ \E limit \in RequestedLimits, raw \in SizedResults :
        Call("fetchNotes", Arg(TRUE, TRUE, limit, <<>>, <<0, 0>>, 0, raw),
             fetchNotesRun(TRUE, limit, raw))

LimitedFetchEvents ==
    /\ op = "none"
    /\ \E limit \in RequestedLimits, raw \in SizedResults :
        Call("fetchEvents", Arg(TRUE, TRUE, limit, <<>>, <<0, MaxTimeMs>>, 0, raw),
             fetchEventsRun(TRUE, limit, 0, MaxTimeMs, raw))

\* maxReminders goes into the script only
LimitedFetchReminders ==
    /\ op = "none"
    /\ \E maxReminders \in RequestedLimits, raw \in SizedResults :
        Call("fetchReminders", Arg(TRUE, TRUE, maxReminders, <<>>, <<0, 0>>, 0, raw),
             fetchRemindersRun(TRUE, <<>>, raw))

\* limit goes into the script only
LimitedGetLatestMails ==
    /\ op = "none"
    /\ \E limit \in RequestedLimits, raw \in SizedResults :
        Call("getLatestMails", Arg(TRUE, TRUE, limit, <<"A">>, <<0, 0>>, 0, raw),
             getLatestMailsRun(TRUE, <<"A">>, 0, raw))

NextLimit ==
    \/ Return
    \/ LimitedFetchNotes
    \/ LimitedFetchEvents
    \/ LimitedFetchReminders
    \/ LimitedGetLatestMails

\* the fetches with a limit, called on one result after another
SpecLimit == Init /\ [][NextLimit]_vars

-----------------------------------------------------------------------------
(* Properties of the limits.                                               *)

\* the limit asked for, or the default of the operation when it is absent
AskedLimit(default) == IF arg.limit.t = "undef" THEN default ELSE arg.limit.n

\* the clamped cap of the pending operation
ClampedCap ==
    CASE op = "fetchNotes" -> Max(1, Min(AskedLimit(MAX_NOTES), MAX_NOTES))
      [] op = "fetchEvents" -> Max(1, Min(AskedLimit(MAX_EVENTS), MAX_EVENTS))
      [] op = "fetchReminders" -> Max(1, Min(AskedLimit(MAX_REMINDERS), MAX_REMINDERS))
      [] OTHER -> Min(Max(AskedLimit(LATEST_MAILS_DEFAULT), 1), MAX_EMAILS)

(* C27: every fetch with a limit returns at most its clamped cap, for any  *)
(* limit (zero, negative, above the maximum, absent) and any number of     *)
(* records the bridge supplies: fetchNotes and fetchEvents at most         *)
(* max(1, min(limit, 50)), fetchReminders at most                          *)
(* max(1, min(maxReminders, 50)), getLatestMails at most                   *)
(* min(max(limit, 1), 20).                                                 *)
C27_AtMostClampedCap ==
    (op \in {"fetchNotes", "fetchEvents", "fetchReminders", "getLatestMails"}
     /\ res.kind = "ok")
    => Len(res.out) <= ClampedCap

\* C27 for the two fetches that slice what the mapper returns (holds)
C27_NotesAndEventsCapped ==
    (op \in {"fetchNotes", "fetchEvents"} /\ res.kind = "ok")
    => Len(res.out) <= ClampedCap

-----------------------------------------------------------------------------
(* Properties of the event ids.                                            *)

(* C30: no two events returned by mapEventRecords have the same id,        *)
(* synthesized ids counted.                                                *)
C30_EventIdsDistinct ==
    (op = "mapEventRecords" /\ res.kind = "ok")
    => \A i \in 1..Len(res.out) : \A j \in 1..Len(res.out) :
           i # j => res.out[i].id # res.out[j].id

\* C30 for the batches in which every record carries an id of its own
\* (holds)
C30_OwnIdsDistinct ==
    (op = "mapEventRecords" /\ res.kind = "ok" /\ IsArray(arg.raw)
     /\ \A i \in 1..Len(BatchRecords) : recordId(BatchRecords[i]) # <<>>)
    => \A i \in 1..Len(res.out) : \A j \in 1..Len(res.out) :
           i # j => res.out[i].id # res.out[j].id

-----------------------------------------------------------------------------
(* The public operations, step by step.  Every operation the four modules  *)
(* export (and the second mail module, suffix 2) runs as: an input check   *)
(* before the probe where the code has one, the access probe, the input    *)
(* checks behind the probe, the temporary file where the code writes one,  *)
(* the data script, the removal of the temporary file, the result.  steps  *)
(* lists what the call has done so far: "probe" (the probe script sent),   *)
(* "write", "script" (a data script sent), "unlink".                       *)

NotesOperations ==
    {"getAllNotes", "findNote", "createNote", "getNotesFromFolder",
     "getRecentNotesFromFolder", "getNotesByDateRange", "requestNotesAccess"}
CalendarOperations ==
    {"searchEvents", "openEvent", "getEvents", "createEvent", "requestCalendarAccess"}
RemindersOperations ==
    {"getAllLists", "getAllReminders", "searchReminders", "createReminder",
     "openReminder", "getRemindersFromListById", "requestRemindersAccess"}
MailOperations ==
    {"getUnreadMails", "searchMails", "sendMail", "getMailboxes", "getAccounts",
     "getMailboxesForAccount", "getLatestMails", "requestMailAccess"}
SecondMailOperations ==
    {"getUnreadMails2", "searchMails2", "sendMail2", "getMailboxes2", "getAccounts2",
     "getMailboxesForAccount2", "getLatestMails2", "requestMailAccess2"}
PublicOperations ==
    NotesOperations \cup CalendarOperations \cup RemindersOperations
    \cup MailOperations \cup SecondMailOperations

\* the operations that are the probe and nothing else
ProbeOnly ==
    {"requestNotesAccess", "requestCalendarAccess", "requestRemindersAccess",
     "requestMailAccess", "requestMailAccess2"}

\* a blank input ends the call before the probe
ReturnsEarly ==
    {"findNote", "searchEvents", "searchReminders", "openReminder",
     "getRemindersFromListById"}

\* an input check stands between the probe and the script; on these a bad
\* input gives an empty list, on the others a failure
EmptyOnBadInput ==
    {"getUnreadMails", "searchMails", "getMailboxesForAccount", "getLatestMails",
     "searchMails2", "getMailboxesForAccount2"}
ChecksInput ==
    EmptyOnBadInput
    \cup {"createNote", "openEvent", "createEvent", "createReminder", "sendMail",
          "sendMail2"}

WritesTempFile == {"createNote", "sendMail", "sendMail2"}

\* a catch around the whole body that returns an empty list
CatchesAll == {"getAllLists"}

\* the names randomUUID can give a temporary file
TempNames == 1..MaxBatch

\* the call ends with an error: thrown, or returned as a failure message;
\* getAllLists returns an empty list instead
raise(name, err, done) ==
    IF name \in CatchesAll THEN Returned(<<>>, Undef, done)
    ELSE Failed(err, <<>>, done)

\* a public operation is called
Invoke ==
    /\ pc = "idle"
    /\ op = "none"
    /\ \E name \in PublicOperations, inputOk \in BOOLEAN :
        /\ name \notin ReturnsEarly \cup ChecksInput => inputOk
        /\ name \in WritesTempFile => Cardinality(disk) < MaxBatch
        /\ op' = name
        /\ arg' = Arg(FALSE, inputOk, Undef, <<>>, <<0, 0>>, 0, Undef)
    /\ pc' = "called"
    /\ steps' = <<>>
    /\ res' = NoResult
    /\ tmpFile' = 0
    /\ UNCHANGED <<disk, cachedDocuments, loads, parser>>

\* if (!trimmed) return [] (openReminder: a failure message)
ReturnEarly ==
    /\ pc = "called"
    /\ op \in ReturnsEarly
    /\ ~arg.ok
    /\ res' = IF op = "openReminder" THEN Failed("validation", <<>>, steps)
              ELSE Returned(<<>>, Undef, steps)
    /\ pc' = "done"
    /\ UNCHANGED <<op, arg, steps, tmpFile, disk, cachedDocuments, loads, parser>>

\* request...Access(): the probe script is sent; it runs or throws
AccessProbe ==
    /\ pc = "called"
    /\ op \in ReturnsEarly => arg.ok
    /\ \E hasAccess \in BOOLEAN :
        /\ arg' = [arg EXCEPT !.access = hasAccess]
        /\ pc' = IF hasAccess THEN "granted" ELSE "denied"
    /\ steps' = Append(steps, "probe")
    /\ UNCHANGED <<op, res, tmpFile, disk, cachedDocuments, loads, parser>>

\* if (!access.hasAccess) throw new Error(access.message)
AccessDenied ==
    /\ pc = "denied"
    /\ res' = raise(op, "access", steps)
    /\ pc' = "done"
    /\ UNCHANGED <<op, arg, steps, tmpFile, disk, cachedDocuments, loads, parser>>

\* request...Access() returns hasAccess: true
AccessGranted ==
    /\ pc = "granted"
    /\ op \in ProbeOnly
    /\ res' = Returned(<<>>, Undef, steps)
    /\ pc' = "done"
    /\ UNCHANGED <<op, arg, steps, tmpFile, disk, cachedDocuments, loads, parser>>

\* the input checks behind the probe
RejectInput ==
    /\ pc = "granted"
    /\ op \in ChecksInput
    /\ ~arg.ok
    /\ res' = IF op \in EmptyOnBadInput THEN Returned(<<>>, Undef, steps)
              ELSE Failed("validation", <<>>, steps)
    /\ pc' = "done"
    /\ UNCHANGED <<op, arg, steps, tmpFile, disk, cachedDocuments, loads, parser>>

\* tmpFile = join(tmpdir(), `...${randomUUID()}.txt`); await writeFile(...)
WriteFile ==
    /\ pc = "granted"
    /\ op \in WritesTempFile
    /\ arg.ok
    /\ \E file \in TempNames \ disk :
        /\ tmpFile' = file
        /\ \/ /\ disk' = disk \cup {file}
              /\ steps' = Append(steps, "write")
              /\ pc' = "written"
              /\ UNCHANGED res
           \/ /\ res' = raise(op, "write", steps)
              /\ pc' = "done"
              /\ UNCHANGED <<disk, steps>>
    /\ UNCHANGED <<op, arg, cachedDocuments, loads, parser>>

\* await runAppleScript(script): the data script is sent; it answers with a
\* success, answers with something else, or throws (in createNote a result
\* the parser rejects throws too)
SendScript ==
    /\ pc = IF op \in WritesTempFile THEN "written" ELSE "granted"
    /\ op \notin ProbeOnly
    /\ op \in ChecksInput => arg.ok
    /\ steps' = Append(steps, "script")
    /\ \E answer \in {"success", "failure", "throws"} :
        IF answer = "throws"
        THEN /\ res' = raise(op, "bridge", steps')
             /\ pc' = "done"
             /\ UNCHANGED arg
        ELSE IF op \in WritesTempFile
        THEN /\ arg' = [arg EXCEPT !.text = <<answer>>]
             /\ pc' = "answered"
             /\ UNCHANGED res
        ELSE IF op = "openReminder" /\ answer = "success"
        THEN /\ pc' = "found"
             /\ UNCHANGED <<arg, res>>
        ELSE /\ res' = IF answer = "success" THEN Returned(<<>>, Undef, steps')
                       ELSE raise(op, "status", steps')
             /\ pc' = "done"
             /\ UNCHANGED arg
    /\ UNCHANGED <<op, tmpFile, disk, cachedDocuments, loads, parser>>

\* try { await unlink(tmpFile) } catch { ... }: the file is removed, or the
\* removal fails and the failure is ignored
Unlink ==
    /\ pc = "answered"
    /\ steps' = Append(steps, "unlink")
    /\ \E removed \in BOOLEAN : disk' = IF removed THEN disk \ {tmpFile} ELSE disk
    /\ pc' = "cleaned"
    /\ UNCHANGED <<op, arg, res, tmpFile, cachedDocuments, loads, parser>>

\* the result of sendMail and createNote, read from the answer
Finish ==
    /\ pc = "cleaned"
    /\ res' = IF arg.text = <<"success">> THEN Returned(<<>>, Undef, steps)
              ELSE Failed("status", <<>>, steps)
    /\ pc' = "done"
    /\ UNCHANGED <<op, arg, steps, tmpFile, disk, cachedDocuments, loads, parser>>

\* openReminder: showReminderById(reminder.id) sends a second script
ShowReminder ==
    /\ pc = "found"
    /\ steps' = Append(steps, "script")
    /\ \E answer \in {"success", "failure", "throws"} :
        res' = IF answer = "success" THEN Returned(<<>>, Undef, steps')
               ELSE Failed(IF answer = "throws" THEN "bridge" ELSE "status", <<>>, steps')
    /\ pc' = "done"
    /\ UNCHANGED <<op, arg, tmpFile, disk, cachedDocuments, loads, parser>>

\* the caller takes the outcome
Complete ==
    /\ pc = "done"
    /\ op' = "none"
    /\ arg' = NoArg
    /\ steps' = <<>>
    /\ res' = NoResult
    /\ pc' = "idle"
    /\ tmpFile' = 0
    /\ UNCHANGED <<disk, cachedDocuments, loads, parser>>

NextCalls ==
    \/ Invoke
    \/ ReturnEarly
    \/ AccessProbe
    \/ AccessDenied
    \/ AccessGranted
    \/ RejectInput
    \/ WriteFile
    \/ SendScript
    \/ Unlink
    \/ Finish
    \/ ShowReminder
    \/ Complete

\* one public operation after another, each running step by step
SpecCalls == Init /\ [][NextCalls]_vars

-----------------------------------------------------------------------------
(* Properties of the calls.                                                *)

\* the k-th step of the pending call comes behind a probe
ProbedBefore(k) == \E j \in 1..(k - 1) : steps[j] = "probe"

(* C28: in every public mail, notes, calendar and reminders operation no   *)
(* data script is sent to the bridge unless the access probe earlier in    *)
(* the same call succeeded, and when the probe fails the operation ends    *)
(* with the access message and sends nothing further.                      *)
C28_ProbeBeforeData ==
    /\ \A k \in 1..Len(steps) :
           steps[k] = "script" => (arg.access /\ ProbedBefore(k))
    /\ (pc = "done" /\ StageRun("probe") /\ ~arg.access)
       => /\ res.kind = "error"
          /\ res.err = "access"
          /\ steps = <<"probe">>

\* the part of C28 on what is sent: no data script without a probe that
\* succeeded, and nothing behind a probe that failed (holds)
C28_NothingSentWithoutAccess ==
    /\ \A k \in 1..Len(steps) :
           steps[k] = "script" => (arg.access /\ ProbedBefore(k))
    /\ (StageRun("probe") /\ ~arg.access) => steps = <<"probe">>

(* C26: every temporary file sendMail or createNote writes is removed, or  *)
(* its removal attempted, by the time the call completes, whatever the     *)
(* bridge does (success, no success, error); and no temporary file is      *)
(* written when validation or the access check fails.                      *)
C26_TempFileRemoved ==
    (op \in WritesTempFile /\ pc = "done")
    => /\ StageRun("write") => StageRun("unlink")
       /\ res.err \in {"access", "validation"} => ~StageRun("write")

\* the parts of C26 that do not depend on the bridge throwing: no file is
\* written when the access check or validation fails, and the removal is
\* attempted whenever the bridge answers (holds)
C26_RemovedWhenBridgeAnswers ==
    (op \in WritesTempFile /\ pc = "done")
    => /\ (StageRun("write") /\ res.err # "bridge") => StageRun("unlink")
       /\ res.err \in {"access", "validation"} => ~StageRun("write")

-----------------------------------------------------------------------------
(* The search module (the third module of mail.ts), with concurrent        *)
(* callers.  A call of search or fetchDocument runs without interruption   *)
(* up to its first await that waits on the outside, which is the readFile  *)
(* inside loadReadmeSections; calls made meanwhile run in between.         *)
(* pc[p] is the position of caller p:                                      *)
(*   at         "idle", "called", "loading" (inside loadReadmeSections,    *)
(*              waiting for readFile), "have" (documents in hand), "done"  *)
(*   fn         the function called                                        *)
(*   ok         the query or id is not blank                               *)
(*   load       which run of loadReadmeSections the caller waits for       *)
(*   documents  the documents ensureDocumentsLoaded returned to it         *)

\* the calls in flight at a time: two, and more as MaxBatch grows
Callers == 1..(MaxBatch - 1)

\* the array a run of loadReadmeSections returns: a new array on each run,
\* built from the README or, when readFile fails, the fallback document
Documents(load, content) == [t |-> "docs", load |-> load, content |-> content]

IdleCaller == [at |-> "idle", fn |-> "none", ok |-> FALSE, load |-> 0, documents |-> Null]

InitDocs ==
    /\ op = "none"
    /\ arg = NoArg
    /\ steps = <<>>
    /\ res = NoResult
    /\ pc = [p \in Callers |-> IdleCaller]
    /\ tmpFile = 0
    /\ disk = {}
    /\ cachedDocuments = Null
    /\ loads = 0
    /\ parser = NoParser

docsFrame == <<op, arg, steps, res, tmpFile, disk, parser>>

\* search(query, limit) is called
Search ==
    /\ \E p \in Callers, ok \in BOOLEAN :
        /\ pc[p].at = "idle"
        /\ pc' = [pc EXCEPT ![p] = [IdleCaller EXCEPT !.at = "called", !.fn = "search", !.ok = ok]]
    /\ UNCHANGED <<cachedDocuments, loads>>
    /\ UNCHANGED docsFrame

\* fetchDocument(id) is called
FetchDocument ==
    /\ \E p \in Callers, ok \in BOOLEAN :
        /\ pc[p].at = "idle"
        /\ pc' = [pc EXCEPT ![p] = [IdleCaller EXCEPT !.at = "called", !.fn = "fetchDocument", !.ok = ok]]
    /\ UNCHANGED <<cachedDocuments, loads>>
    /\ UNCHANGED docsFrame

\* a blank query returns [], a blank id throws: no documents are asked for
BlankInput ==
    /\ \E p \in Callers :
        /\ pc[p].at = "called"
        /\ ~pc[p].ok
        /\ pc' = [pc EXCEPT ![p].at = "done"]
    /\ UNCHANGED <<cachedDocuments, loads>>
    /\ UNCHANGED docsFrame

\* ensureDocumentsLoaded(): if (cachedDocuments) return cachedDocuments;
\* otherwise loadReadmeSections() is called and runs up to await readFile
ensureDocumentsLoaded ==
    /\ \E p \in Callers :
        /\ pc[p].at = "called"
        /\ pc[p].ok
        /\ IF cachedDocuments # Null
           THEN /\ pc' = [pc EXCEPT ![p].at = "have", ![p].documents = cachedDocuments]
                /\ UNCHANGED loads
           ELSE /\ loads < MaxBatch
                /\ loads' = loads + 1
                /\ pc' = [pc EXCEPT ![p].at = "loading", ![p].load = loads + 1]
    /\ UNCHANGED cachedDocuments
    /\ UNCHANGED docsFrame

\* readFile settles; loadReadmeSections returns its array and
\* ensureDocumentsLoaded goes on: cachedDocuments = await ...; return it
loadReadmeSections ==
    /\ \E p \in Callers, content \in {"readme", "fallback"} :
        /\ pc[p].at = "loading"
        /\ cachedDocuments' = Documents(pc[p].load, content)
        /\ pc' = [pc EXCEPT ![p].at = "have",
                            ![p].documents = Documents(pc[p].load, content)]
    /\ UNCHANGED loads
    /\ UNCHANGED docsFrame

\* the rest of search or fetchDocument, on the documents in hand
Answer ==
    /\ \E p \in Callers :
        /\ pc[p].at = "have"
        /\ pc' = [pc EXCEPT ![p].at = "done"]
    /\ UNCHANGED <<cachedDocuments, loads>>
    /\ UNCHANGED docsFrame

\* the caller takes the result
Resolve ==
    /\ \E p \in Callers :
        /\ pc[p].at = "done"
        /\ pc' = [pc EXCEPT ![p] = IdleCaller]
    /\ UNCHANGED <<cachedDocuments, loads>>
    /\ UNCHANGED docsFrame

NextDocs ==
    \/ Search
    \/ FetchDocument
    \/ BlankInput
    \/ ensureDocumentsLoaded
    \/ loadReadmeSections
    \/ Answer
    \/ Resolve

\* concurrent calls of search and fetchDocument
SpecDocs == InitDocs /\ [][NextDocs]_vars

-----------------------------------------------------------------------------
(* Properties of the document cache.                                       *)

\* the cache is not replaced in this step once it is set
CacheKept == cachedDocuments # Null => cachedDocuments' = cachedDocuments

(* C25: across any interleaving of concurrent search and fetchDocument     *)
(* calls the README document set is loaded at most once                    *)
(* (loadReadmeSections runs once) and cachedDocuments is never replaced    *)
(* once it is set.                                                         *)
C25_LoadedOnce == [](loads <= 1) /\ [][CacheKept]_vars

\* what the check in ensureDocumentsLoaded does give: a load starts only
\* while the cache is empty, and a caller that finds the cache set takes
\* the cached array (holds)
C25_LoadOnlyWhenEmpty ==
    [][/\ loads' > loads => cachedDocuments = Null
       /\ \A p \in Callers :
            (pc[p].at = "called" /\ pc'[p].at = "have")
            => pc'[p].documents = cachedDocuments]_vars

-----------------------------------------------------------------------------
(* AppleScriptSourceParser.parse run step by step: one step for each       *)
(* iteration of a loop and for each stretch of straight-line code between  *)
(* two loops or calls.  pc is the place in the code; parser holds the      *)
(* input, this.index, the locals start (parseKey, parseNumber,             *)
(* parseBareword), position and depth (isRecordCollection) and scan (the   *)
(* index of skipStringFrom), and the calls of parseCollection that have    *)
(* not returned (frames).  A frame notes whether the collection is a       *)
(* record or a list, this.index when the parseValue that parses it was     *)
(* called (entered), and this.index when the running iteration of its loop *)
(* began (iteration).  skipWhitespace is taken in one piece.               *)

\* the literals, alone and as members
KeywordTexts ==
    {T_true, T_false, T_missing_value, <<" ">> \o T_true \o <<" ">>,
     <<"{">> \o T_true \o <<",">> \o T_missing_value \o <<"}">>,
     <<"{", "a", ":">> \o T_false \o <<"}">>}

\* collections inside collections, quoted keys, strings that hold
\* structural characters, numbers with a sign and a fraction
NestedTexts ==
    {<<"{", "a", ":", "{", "1", ",", "\"", "}", "\"", "}", ",", "b", ":", "-", "1", ".", "0", "}">>,
     <<"{", "{", "a", ":", "1", "}", ",", " ", "{", "a", ":", "{", "}", "}", "}">>,
     <<"{", "\"", "a", "\\", "\"", "\"", ":", "{", "{", "1", "}", "}", "}">>,
     <<"{", "{", "a", ":", "1", "}", ":", "1", "}">>,
     <<"{", "1", ",", "{", "a", ":", "\"", "\\">>}

StepInputs == ShortTexts \cup NumberTokens \cup KeywordTexts \cup NestedTexts

InitParser ==
    /\ op = "none"
    /\ arg = NoArg
    /\ steps = <<>>
    /\ res = NoResult
    /\ pc = "parse"
    /\ tmpFile = 0
    /\ disk = {}
    /\ cachedDocuments = Null
    /\ loads = 0
    /\ \E input \in StepInputs : parser = [NoParser EXCEPT !.input = input, !.index = 1]

parserFrame == <<op, arg, steps, res, tmpFile, disk, cachedDocuments, loads>>

\* a cursor that is left where it is
stay(cursor) == cursor

\* index += 1, position += 1
advance(cursor) == cursor + 1

goto(label, next) ==
    /\ pc' = label
    /\ parser' = next
    /\ UNCHANGED parserFrame

\* throw new Error(...): the call of parse ends
throwError == goto("threw", parser)

top(frames) == frames[Len(frames)]

\* parse(), up to the call of parseValue
ParseBegin ==
    /\ pc = "parse"
    /\ goto("parseValue",
            [parser EXCEPT !.index = skipWhitespace(parser.input, parser.index)])

\* parseValue(): white space, then the branch on the first character
ParseValue ==
    /\ pc = "parseValue"
    /\ \E i \in {skipWhitespace(parser.input, parser.index)} :
       \E char \in {peekAt(parser.input, i)} :
        IF char = "" THEN throwError
        ELSE IF char = "{"
        THEN goto("parseCollection", [parser EXCEPT !.index = i, !.entered = parser.index])
        ELSE IF char = "\""
        THEN goto("parseString", [parser EXCEPT !.index = advance(i), !.caller = "value"])
        ELSE IF startsWith(parser.input, i, T_missing_value)
        THEN goto("valueParsed", [parser EXCEPT !.index = i + Len(T_missing_value)])
        ELSE IF startsWith(parser.input, i, T_true)
        THEN goto("valueParsed", [parser EXCEPT !.index = i + Len(T_true)])
        ELSE IF startsWith(parser.input, i, T_false)
        THEN goto("valueParsed", [parser EXCEPT !.index = i + Len(T_false)])
        ELSE IF char = "-"
        THEN goto("integerDigits", [parser EXCEPT !.start = i, !.index = advance(i)])
        ELSE IF isDigit(char)
        THEN goto("integerDigits", [parser EXCEPT !.start = i, !.index = i])
        ELSE goto("parseBareword", [parser EXCEPT !.start = i, !.index = i])

\* parseCollection(), up to the loop of isRecordCollection
ParseCollection ==
    /\ pc = "parseCollection"
    /\ \E i \in {skipWhitespace(parser.input, advance(parser.index))} :
        IF peekAt(parser.input, i) = "}"
        THEN goto("valueParsed", [parser EXCEPT !.index = advance(i)])
        ELSE goto("isRecordCollection",
                  [parser EXCEPT !.index = i, !.position = i, !.depth = 0])

\* isRecordCollection() returns, and parseCollection enters the loop of
\* the records or the loop of the lists
collectionFound(isRecord) ==
    goto(IF isRecord THEN "parseKey" ELSE "parseValue",
         [parser EXCEPT !.frames =
             Append(parser.frames,
                    [kind |-> IF isRecord THEN "record" ELSE "list",
                     entered |-> parser.entered,
                     iteration |-> parser.index])])

\* one iteration of the loop of isRecordCollection
ScanCollection ==
    /\ pc = "isRecordCollection"
    /\ IF parser.position > Len(parser.input) THEN collectionFound(FALSE)
       ELSE \E char \in {parser.input[parser.position]} :
        IF isWhitespaceChar(char)
        THEN goto("isRecordCollection", [parser EXCEPT !.position = advance(parser.position)])
        ELSE IF char = "\""
        THEN goto("skipStringFrom", [parser EXCEPT !.scan = parser.position + 1])
        ELSE IF char = "{"
        THEN goto("isRecordCollection",
                  [parser EXCEPT !.depth = parser.depth + 1,
                                 !.position = advance(parser.position)])
        ELSE IF char = "}"
        THEN IF parser.depth = 0 THEN collectionFound(FALSE)
             ELSE goto("isRecordCollection",
                       [parser EXCEPT !.depth = parser.depth - 1,
                                      !.position = advance(parser.position)])
        ELSE IF parser.depth = 0 /\ char = ":" THEN collectionFound(TRUE)
        ELSE IF parser.depth = 0 /\ char = "," THEN collectionFound(FALSE)
        ELSE goto("isRecordCollection", [parser EXCEPT !.position = advance(parser.position)])

\* one iteration of the loop of skipStringFrom
SkipString ==
    /\ pc = "skipStringFrom"
    /\ IF parser.scan > Len(parser.input) THEN throwError
       ELSE IF parser.input[parser.scan] = "\\"
       THEN goto("skipStringFrom", [parser EXCEPT !.scan = advance(advance(parser.scan))])
       ELSE IF parser.input[parser.scan] = "\""
       THEN goto("isRecordCollection", [parser EXCEPT !.position = advance(parser.scan)])
       ELSE goto("skipStringFrom", [parser EXCEPT !.scan = advance(parser.scan)])

\* parseKey(), up to its loop
ParseKey ==
    /\ pc = "parseKey"
    /\ \E i \in {skipWhitespace(parser.input, parser.index)} :
        IF peekAt(parser.input, i) = "" THEN throwError
        ELSE IF peekAt(parser.input, i) = "\""
        THEN goto("parseString", [parser EXCEPT !.index = advance(i), !.caller = "key"])
        ELSE goto("keyCharacters", [parser EXCEPT !.start = i, !.index = i])

\* one iteration of the loop of parseKey, and what follows the loop
KeyCharacters ==
    /\ pc = "keyCharacters"
    /\ IF isKeyChar(peekAt(parser.input, parser.index))
       THEN goto("keyCharacters", [parser EXCEPT !.index = advance(parser.index)])
       ELSE IF parser.start = parser.index THEN throwError
       ELSE goto("colon", parser)

\* the record loop between parseKey and parseValue: consume(":")
Colon ==
    /\ pc = "colon"
    /\ \E i \in {skipWhitespace(parser.input, parser.index)} :
        IF peekAt(parser.input, i) = ":"
        THEN goto("parseValue", [parser EXCEPT !.index = advance(i)])
        ELSE throwError

\* one iteration of the loop of parseString (the opening quote is consumed)
StringCharacters ==
    /\ pc = "parseString"
    /\ IF parser.index > Len(parser.input) THEN throwError
       ELSE IF parser.input[parser.index] = "\""
       THEN goto(IF parser.caller = "key" THEN "colon" ELSE "valueParsed",
                 [parser EXCEPT !.index = advance(parser.index)])
       ELSE IF parser.input[parser.index] = "\\"
       THEN IF advance(parser.index) > Len(parser.input) THEN throwError
            ELSE goto("parseString", [parser EXCEPT !.index = advance(advance(parser.index))])
       ELSE goto("parseString", [parser EXCEPT !.index = advance(parser.index)])

\* one iteration of the first loop of parseNumber, and the point
IntegerDigits ==
    /\ pc = "integerDigits"
    /\ IF isDigit(peekAt(parser.input, parser.index))
       THEN goto("integerDigits", [parser EXCEPT !.index = advance(parser.index)])
       ELSE IF peekAt(parser.input, parser.index) = "."
       THEN goto("fractionDigits", [parser EXCEPT !.index = advance(parser.index)])
       ELSE goto("valueParsed", parser)

\* one iteration of the second loop of parseNumber
FractionDigits ==
    /\ pc = "fractionDigits"
    /\ IF isDigit(peekAt(parser.input, parser.index))
       THEN goto("fractionDigits", [parser EXCEPT !.index = advance(parser.index)])
       ELSE goto("valueParsed", parser)

\* one iteration of the loop of parseBareword, and what follows the loop
BarewordCharacters ==
    /\ pc = "parseBareword"
    /\ \E current \in {peekAt(parser.input, parser.index)} :
        IF current = "" \/ current \in {",", "}"} \/ isWhitespaceChar(current)
        THEN IF parser.start = parser.index THEN throwError
             ELSE goto("valueParsed", parser)
        ELSE goto("parseBareword", [parser EXCEPT !.index = advance(parser.index)])

\* the loop of a collection after parseValue has returned: a comma, and the
\* next iteration
NextMember ==
    /\ pc = "valueParsed"
    /\ parser.frames # <<>>
    /\ \E i \in {skipWhitespace(parser.input, parser.index)} :
        /\ peekAt(parser.input, i) = ","
        /\ goto(IF top(parser.frames).kind = "record" THEN "parseKey" ELSE "parseValue",
                [parser EXCEPT !.index = advance(i),
                               !.frames[Len(parser.frames)].iteration = advance(i)])

\* the loop of a collection after parseValue has returned: no comma, the
\* loop is left and the closing brace consumed
CloseCollection ==
    /\ pc = "valueParsed"
    /\ parser.frames # <<>>
    /\ \E i \in {skipWhitespace(parser.input, parser.index)} :
        /\ peekAt(parser.input, i) # ","
        /\ IF peekAt(parser.input, i) = "}"
           THEN goto("valueParsed",
                     [parser EXCEPT !.index = advance(i),
                                    !.frames = SubSeq(parser.frames, 1, Len(parser.frames) - 1)])
           ELSE throwError

\* parse() after parseValue has returned
ParseEnd ==
    /\ pc = "valueParsed"
    /\ parser.frames = <<>>
    /\ \E i \in {skipWhitespace(parser.input, parser.index)} :
        IF i <= Len(parser.input) THEN throwError
        ELSE goto("returned", [parser EXCEPT !.index = i])

NextParser ==
    \/ ParseBegin
    \/ ParseValue
    \/ ParseCollection
    \/ ScanCollection
    \/ SkipString
    \/ ParseKey
    \/ KeyCharacters
    \/ Colon
    \/ StringCharacters
    \/ IntegerDigits
    \/ FractionDigits
    \/ BarewordCharacters
    \/ NextMember
    \/ CloseCollection
    \/ ParseEnd

\* one call of parse on one text; the call is synchronous, so that it goes
\* on for as long as it has a step to take
SpecParser == InitParser /\ [][NextParser]_vars /\ WF_vars(NextParser)

\* parse has returned a value or raised an error
Finished == pc \in {"returned", "threw"}

\* the step-by-step run ends as parse(input) does
StepsAgreeWithParse ==
    /\ pc = "returned" => parse(parser.input).ok
    /\ pc = "threw" => ~parse(parser.input).ok

\* the loops that go round in one step, and the cursor each one moves
LoopLabels ==
    {"isRecordCollection", "skipStringFrom", "keyCharacters", "parseString",
     "integerDigits", "fractionDigits", "parseBareword"}

cursorOf(label, state) ==
    IF label = "isRecordCollection" THEN state.position
    ELSE IF label = "skipStringFrom" THEN state.scan
    ELSE state.index

\* an iteration of a loop leaves the loop's cursor further on: the loops
\* that go round in one step, the iteration of isRecordCollection that
\* calls skipStringFrom, and the loops of parseCollection
CursorAdvances ==
    /\ (pc \in LoopLabels /\ pc' = pc) => cursorOf(pc, parser') > cursorOf(pc, parser)
    /\ (pc = "skipStringFrom" /\ pc' = "isRecordCollection")
            => parser'.position > parser.position
    /\ (pc = "valueParsed" /\ pc' \in {"parseKey", "parseValue"})
            => /\ Len(parser'.frames) = Len(parser.frames)
               /\ top(parser'.frames).iteration > top(parser.frames).iteration
               /\ top(parser'.frames).iteration = parser'.index

\* parseValue called from a collection: this.index is behind the index at
\* which the parseValue that parses the collection was called, and so on
\* down the calls that have not returned
ConsumedBeforeRecursion ==
    pc = "parseValue" /\ parser.frames # <<>> =>
        /\ parser.index > top(parser.frames).entered
        /\ \A k \in 1..(Len(parser.frames) - 1) :
               parser.frames[k + 1].entered > parser.frames[k].entered

\* C29: for every finite input text parse ends, returning a value or
\* raising an error: every iteration of a loop of parseCollection,
\* isRecordCollection, parseString, parseNumber, parseBareword, parseKey
\* and skipStringFrom moves a cursor forward, and every parseValue called
\* from a collection is called after at least one character was consumed
C29_ParseTerminates ==
    /\ <>Finished
    /\ [][CursorAdvances]_vars
    /\ [](ConsumedBeforeRecursion)

\* parse has returned the value of a record that holds a list and numbers
C29_NestedRecordParsed ==
    /\ pc = "returned"
    /\ parser.input =
         <<"{", "a", ":", "{", "1", ",", "\"", "}", "\"", "}", ",", "b", ":", "-", "1", ".", "0", "}">>
    /\ parser.index = Len(parser.input) + 1

====
